---------------------------- MODULE Spec2Model ----------------------------
(***************************************************************************)
(* A model of the record lifecycle core of the batch pipeline in           *)
(* data_pipeline_project: the window generator, the timing validator, the  *)
(* acquire-or-create step (store_new_and_pass_valid_record and the older   *)
(* decide_pipeline_record), the three phase tasks with their resets, and   *)
(* the stale-lock cleanup, all acting on one drive table.                  *)
(*                                                                         *)
(* Conventions.                                                            *)
(*  - Instants are integer seconds since a day boundary; a day is 86400    *)
(*    seconds (no DST transition falls inside the modelled days).          *)
(*  - Python None is the empty tuple <<>>; a present value v of a nullable *)
(*    column is <<v>>.  Nullable status-like columns use the string "NULL".*)
(*  - A duration string such as '1d2h30m' is the record of its four        *)
(*    optional groups [d, h, m, s]; an absent group is Absent.             *)
(*  - The drive table is the bag of its rows.  The SQL text of each        *)
(*    database function is modelled by its effect on the rows.             *)
(*  - The clock is coarse, so a creation time is the pair of the clock     *)
(*    reading and the invocation that read it: two invocations never read  *)
(*    the same pendulum.now().                                             *)
(*  - A name used by a function but not imported in its file is resolved   *)
(*    to the repository's definition of that name.                         *)
(***************************************************************************)
EXTENDS Integers, Sequences, FiniteSets, Bags, TLC

None == <<>>

Some(v) == <<v>>

\* ------------------------------------------------------------------------
\* utils/time_utils.py
\* ------------------------------------------------------------------------

DAY == 86400

HOUR == 3600

MINUTE == 60

Absent == -1

\* int(x or 0) for one regex group
GroupValue(g) == IF g = Absent THEN 0 ELSE g

TimeString(d, h, m, s) == [d |-> d, h |-> h, m |-> m, s |-> s]

EmptyString == TimeString(Absent, Absent, Absent, Absent)

\* parse_time_to_seconds: the sum of the groups; raises ValueError on the
\* empty string and on a zero total.
TotalSeconds(ts) ==
    GroupValue(ts.d) * DAY + GroupValue(ts.h) * HOUR
        + GroupValue(ts.m) * MINUTE + GroupValue(ts.s)

parse_time_to_seconds_raises(ts) == ts = EmptyString \/ TotalSeconds(ts) = 0

parse_time_to_seconds(ts) == TotalSeconds(ts)

\* one "{n}{unit}" part, appended only when n > 0
Part(n) == IF n > 0 THEN n ELSE Absent

seconds_to_time_stringMutant(seconds) ==
    IF seconds <= 0
    THEN TimeString(Absent, Absent, Absent, 0)
    ELSE TimeString(Part(seconds \div DAY),
                    Part(seconds \div HOUR),
                    Part((seconds % HOUR) \div MINUTE),
                    Part(seconds % MINUTE))

\* seconds_to_time_string
seconds_to_time_string(seconds) ==
    IF seconds <= 0
    THEN TimeString(Absent, Absent, Absent, 0)
    ELSE TimeString(Part(seconds \div DAY),
                    Part((seconds % DAY) \div HOUR),
                    Part((seconds % HOUR) \div MINUTE),
                    Part(seconds % MINUTE))

\* adjusted_time.start_of('day')
start_of_day(t) == t - (t % DAY)

\* calculate_day_from_timestamp('now', time_back, timezone)
calculate_day_from_timestamp(base_time, time_back) ==
    start_of_day(base_time - parse_time_to_seconds(time_back))

\* ------------------------------------------------------------------------
\* core/record_generation.py : calculate_time_window
\* ------------------------------------------------------------------------

next_day_start(target_day) == target_day + DAY

ProcessingCompleteMutant(target_day, continuation_timestamp) ==
    /\ continuation_timestamp # None
    /\ \/ continuation_timestamp[1] < target_day
       \/ continuation_timestamp[1] > next_day_start(target_day)

\* the two early returns of None
ProcessingComplete(target_day, continuation_timestamp) ==
    /\ continuation_timestamp # None
    /\ \/ continuation_timestamp[1] < target_day
       \/ continuation_timestamp[1] >= next_day_start(target_day)

WindowStartMutant(target_day, continuation_timestamp) == target_day

WindowStart(target_day, continuation_timestamp) ==
    IF continuation_timestamp = None
    THEN target_day
    ELSE continuation_timestamp[1]

WindowEndMutant(target_day, window_start_time, granularity_seconds) ==
    window_start_time + granularity_seconds

\* desired end, capped at the next day boundary
WindowEnd(target_day, window_start_time, granularity_seconds) ==
    IF window_start_time + granularity_seconds > next_day_start(target_day)
    THEN next_day_start(target_day)
    ELSE window_start_time + granularity_seconds

\* returns None, or the tuple (window_start_time, window_end_time, time_interval)
calculate_time_window(target_day, granularity, continuation_timestamp) ==
    IF ProcessingComplete(target_day, continuation_timestamp)
    THEN None
    ELSE LET ws == WindowStart(target_day, continuation_timestamp)
             we == WindowEnd(target_day, ws, parse_time_to_seconds(granularity))
         IN  <<ws, we, seconds_to_time_string(we - ws)>>


\* ------------------------------------------------------------------------
\* Bounds of the model
\* ------------------------------------------------------------------------

\* the clock advances at most MaxTicks times
MaxTicks == 1

\* the drive table holds at most MaxRows rows
MaxRows == 2

\* source and target counts range over 0..MaxCount
MaxCount == 1

\* RETRY_ATTEMPT is followed up to MaxRetry
MaxRetry == 1

TICK == 12 * HOUR

Now0 == 2 * DAY + 12 * HOUR

Procs == {"p1", "p2"}

Counts == 0 .. MaxCount

\* ------------------------------------------------------------------------
\* Configuration (final_config)
\* ------------------------------------------------------------------------

\* final_config['granularity']
granularity == TimeString(Absent, 12, Absent, Absent)

\* the values of final_config['x_time_back'] that are modelled
LookbackChoices == {TimeString(Absent, 12, Absent, Absent),
                    TimeString(1, Absent, Absent, Absent)}

\* final_config['check_fields']
check_fields == {"RECORD_FIRST_CREATED_TIME"}

\* the route filter of final_config['record']: SOURCE_NAME, SOURCE_CATEGORY,
\* SOURCE_SUBCATEGORY, STAGE_NAME, TARGET_NAME and PIPELINE_PRIORITY as one value
Routes == {"routeA", "routeB"}

\* the routes a caller's final_config may name
RoutesOf(p) == IF p = "p1" THEN {"routeA"} ELSE Routes

\* dag.dag_id of the DAG('data_pipeline_main', ...)
DAG_ID == "data_pipeline_main"

VARIABLES
    now,          \* pendulum.now(timezone)
    x_time_back,  \* final_config['x_time_back']
    store,        \* the rows of the drive table
    pc,           \* where each invocation stands
    kind,         \* "dag": a run of the DAG; "store", "decide": a direct call
    route,        \* final_config['record'] of the invocation
    dag_run_id,   \* the dag_run_id argument
    record,       \* the record dict the invocation holds (None: none)
    new_record,   \* the record built by build_complete_pipeline_record
    result,       \* what the acquire-or-create step returned
    tw,           \* inputs and result of one calculate_time_window call
    vc,           \* inputs and results of one call of each timing validator
    task_result,  \* what the last task of the DAG run returned, and its calls
    try_number,   \* how often the current task of the DAG run has failed
    fc,           \* arguments and result of one call of a pure function
    in_progress_records  \* the rows a reclaim pass has read

pvars == <<now, x_time_back, store, pc, kind, route, dag_run_id, record,
           new_record, result>>

vars == <<now, x_time_back, store, pc, kind, route, dag_run_id, record,
          new_record, result, tw, vc, task_result, try_number, fc,
          in_progress_records>>

\* ------------------------------------------------------------------------
\* core/record_generation.py : identities and record construction
\* ------------------------------------------------------------------------

\* create_hash applied to the fields of a record: the digest of the '|'-joined
\* values, modelled as the tuple of the values.  The fields hashed are strings
\* without '|' (names, ISO timestamps), for which distinct tuples give
\* distinct joined strings; create_hash_text below models the conversion for
\* values of any type.
create_hash(values) == values

\* a Python value passed to create_hash: its type and the characters of its
\* str()
PyValue(type, text) == [type |-> type, text |-> text]

\* str(v)
Str(v) == v.text

RECURSIVE Join(_)
\* "|".join(texts)
Join(texts) ==
    IF Len(texts) = 0 THEN <<>>
    ELSE IF Len(texts) = 1 THEN texts[1]
    ELSE texts[1] \o <<"|">> \o Join(Tail(texts))

combinedMutant(values) == Str(values[1])

\* combined = "|".join(str(v) for v in values)
combined(values) == Join([i \in 1 .. Len(values) |-> Str(values[i])])

\* hashlib.sha256(text.encode()).hexdigest()[:16]: a digest that stands for
\* the string hashed; two different strings of the inputs considered are
\* taken to have different 64-bit prefixes
sha256_16(text) == <<"sha256", text>>

\* create_hash(*values) for values of any type
create_hash_text(values) == sha256_16(combined(values))

\* generate_pipeline_ids: SOURCE_ID depends on the route and the window,
\* STAGE_ID and TARGET_ID on the route and the window start (date and time of
\* the URI), PIPELINE_ID on the three and on RECORD_FIRST_CREATED_TIME.
generate_pipeline_ids(rec) ==
    LET source_id == create_hash(<<rec.ROUTE, rec.WINDOW_START_TIME,
                                   rec.WINDOW_END_TIME>>)
        stage_id  == create_hash(<<rec.ROUTE, rec.WINDOW_START_TIME>>)
        target_id == create_hash(<<rec.ROUTE, rec.WINDOW_START_TIME>>)
    IN  create_hash(<<source_id, stage_id, target_id, rec.RECORD_FIRST_CREATED_TIME>>)

\* final_config['default_record']: the column defaults of a new record
default_record(r) ==
    [ROUTE |-> r,
     PIPELINE_ID |-> None,
     TARGET_DAY |-> None,
     WINDOW_START_TIME |-> None,
     WINDOW_END_TIME |-> None,
     TIME_INTERVAL |-> EmptyString,
     PIPELINE_STATUS |-> "PENDING",
     DAG_RUN_ID |-> "NULL",
     PIPELINE_START_TIME |-> None,
     PIPELINE_END_TIME |-> None,
     SOURCE_TO_STAGE_INGESTION_START_TIME |-> None,
     SOURCE_TO_STAGE_INGESTION_END_TIME |-> None,
     SOURCE_TO_STAGE_INGESTION_STATUS |-> "PENDING",
     STAGE_TO_TARGET_INGESTION_START_TIME |-> None,
     STAGE_TO_TARGET_INGESTION_END_TIME |-> None,
     STAGE_TO_TARGET_INGESTION_STATUS |-> "PENDING",
     AUDIT_START_TIME |-> None,
     AUDIT_END_TIME |-> None,
     AUDIT_STATUS |-> "PENDING",
     AUDIT_RESULT |-> "NULL",
     SOURCE_COUNT |-> None,
     TARGET_COUNT |-> None,
     COUNT_DIFFERENCE |-> None,
     PERCENTAGE_DIFFERENCE |-> None,
     PHASE_COMPLETED |-> "NULL",
     RETRY_ATTEMPT |-> 0,
     RECORD_FIRST_CREATED_TIME |-> None,
     RECORD_LAST_UPDATED_TIME |-> None]

\* the tail of recreate_pipeline_record: id_info = generate_pipeline_ids(...),
\* record.update(id_info)
RebuildIds(withTimes) ==
    [withTimes EXCEPT !.PIPELINE_ID = Some(generate_pipeline_ids(withTimes))]

\* recreate_pipeline_record: time fields, URIs (functions of route and window
\* start, carried by ROUTE and WINDOW_START_TIME), creation time, identities
recreate_pipeline_record(rec, target_day, window_start, window_end, time_interval, t, who) ==
    RebuildIds([rec EXCEPT !.TARGET_DAY = Some(target_day),
                           !.WINDOW_START_TIME = Some(window_start),
                           !.WINDOW_END_TIME = Some(window_end),
                           !.TIME_INTERVAL = time_interval,
                           !.RECORD_FIRST_CREATED_TIME = Some(<<t, who>>)])


\* generate_pipeline_time_window_record and build_complete_pipeline_record:
\* the target day from now, the continuation timestamp from the table, the
\* window, and the record built on a copy of default_record; None when the
\* window generator returns None.
build_complete_pipeline_record(r, t, who, lookback, continuation_timestamp) ==
    LET target_day == calculate_day_from_timestamp(t, lookback)
        w == calculate_time_window(target_day, granularity, continuation_timestamp)
    IN  IF w = None
        THEN None
        ELSE Some(recreate_pipeline_record(default_record(r), target_day,
                                           w[1], w[2], w[3], t, who))

\* ------------------------------------------------------------------------
\* database/pipeline_operations.py and database/drive_func.py
\* ------------------------------------------------------------------------

\* The drive table has no key: it is a bag of rows.
Rows(rows) == BagToSet(rows)

Max(S) == CHOOSE x \in S : \A y \in S : y <= x

UpdateByPipelineIdMutant(rows, rec) ==
    LET kept == {x \in Rows(rows) : x.PIPELINE_ID # rec.PIPELINE_ID}
    IN  [x \in kept |-> rows[x]]

\* UPDATE drive_table SET <every column but PIPELINE_ID> WHERE PIPELINE_ID = ...
UpdateByPipelineId(rows, rec) ==
    LET updated(x) == IF x.PIPELINE_ID = rec.PIPELINE_ID
                      THEN [rec EXCEPT !.PIPELINE_ID = x.PIPELINE_ID]
                      ELSE x
        copies(y) == BagCardinality([x \in {z \in Rows(rows) : updated(z) = y}
                                        |-> rows[x]])
    IN  [y \in {updated(x) : x \in Rows(rows)} |-> copies(y)]

\* INSERT INTO drive_table (...) VALUES (...)
InsertRow(rows, rec) == rows (+) SetToBag({rec})

\* upload_record_to_database: UPDATE when the record carries a PIPELINE_ID,
\* INSERT otherwise
upload_record_to_database(rows, rec) ==
    IF rec.PIPELINE_ID # None
    THEN UpdateByPipelineId(rows, rec)
    ELSE InsertRow(rows, rec)

\* update_record_in_database / update_record_in_drive_table
update_record_in_database(rows, rec) == UpdateByPipelineId(rows, rec)

\* upload_record_to_drive_table: always an INSERT
upload_record_to_drive_table(rows, rec) == InsertRow(rows, rec)

PendingOfRouteMutant(rows, r) == {x \in Rows(rows) : x.ROUTE = r}

\* WHERE <route columns> AND PIPELINE_STATUS = 'PENDING'
PendingOfRoute(rows, r) ==
    {x \in Rows(rows) : x.ROUTE = r /\ x.PIPELINE_STATUS = "PENDING"}

OldestMutant(S) ==
    {x \in S : \A y \in S : x.WINDOW_END_TIME[1] >= y.WINDOW_END_TIME[1]}

\* ORDER BY WINDOW_END_TIME ASC LIMIT 1: the rows the query may return
Oldest(S) ==
    {x \in S : \A y \in S : x.WINDOW_END_TIME[1] <= y.WINDOW_END_TIME[1]}

\* download_oldest_pending_record / get_the_oldest_record_from_drive
download_oldest_pending_record(rows, r) == Oldest(PendingOfRoute(rows, r))

\* latest_timestamp_available: SELECT MAX(WINDOW_END_TIME) WHERE <route columns>
latest_timestamp_available(rows, r) ==
    LET ends == {x.WINDOW_END_TIME[1] : x \in {y \in Rows(rows) : y.ROUTE = r}}
    IN  IF ends = {} THEN None ELSE Some(Max(ends))

\* get_all_in_progress_records
get_all_in_progress_records(rows, r) ==
    {x \in Rows(rows) : x.ROUTE = r /\ x.PIPELINE_STATUS = "IN_PROGRESS"}


\* ------------------------------------------------------------------------
\* core/record_validation.py
\* ------------------------------------------------------------------------

\* is_field_empty, for the nullable columns check_fields names
is_field_empty(value) == value = None

\* rebuild_record_from_time_fields
rebuild_record_from_time_fields(rec, t, who) ==
    recreate_pipeline_record(rec, rec.TARGET_DAY[1], rec.WINDOW_START_TIME[1],
                             rec.WINDOW_END_TIME[1], rec.TIME_INTERVAL, t, who)

\* the columns that hold text, where None is "NULL"; the other nullable
\* columns hold None or one value
TextColumns ==
    {"ROUTE", "PIPELINE_STATUS", "DAG_RUN_ID", "SOURCE_TO_STAGE_INGESTION_STATUS",
     "STAGE_TO_TARGET_INGESTION_STATUS", "AUDIT_STATUS", "AUDIT_RESULT",
     "PHASE_COMPLETED"}

\* is_field_empty(record.get(field)): a key the record lacks reads as None
FieldEmpty(rec, f) ==
    IF f \notin DOMAIN rec THEN TRUE
    ELSE IF f \in TextColumns THEN rec[f] = "NULL" \/ rec[f] = ""
    ELSE is_field_empty(rec[f])

NeedsRebuildMutant(fields, rec) == \A f \in fields : FieldEmpty(rec, f)

\* needs_rebuild = any(is_field_empty(record.get(field)) for field in check_fields)
NeedsRebuild(fields, rec) == \E f \in fields : FieldEmpty(rec, f)

\* ensure_complete_record for a final_config whose 'check_fields' is fields
\* (None: the key is absent, and get() gives [])
EnsureComplete(fields, rec, t, who) ==
    LET names == IF fields = None THEN {} ELSE fields[1]
    IN  IF names = {}
        THEN rec
        ELSE IF NeedsRebuild(names, rec)
             THEN rebuild_record_from_time_fields(rec, t, who)
             ELSE rec

needs_rebuild(rec) == NeedsRebuild(check_fields, rec)

\* ensure_complete_record under the configured check_fields
ensure_complete_record(rec, t, who) == EnsureComplete(Some(check_fields), rec, t, who)

\* latest_stable_time of validate_record_timing: now - x_time_back, less
\* x_time_back once more when x_time_back <= granularity
LatestStableTime(t, lookback) ==
    IF parse_time_to_seconds(lookback) <= parse_time_to_seconds(granularity)
    THEN t - parse_time_to_seconds(lookback) - parse_time_to_seconds(lookback)
    ELSE t - parse_time_to_seconds(lookback)

\* validate_record_timing of core/record_validation.py, for a record that is
\* not None: {'exit_dag': ..., 'record': ...}
validate_record_timing(rec, t, who, lookback) ==
    LET complete == ensure_complete_record(rec, t, who)
        latest_stable_time == LatestStableTime(t, lookback)
    IN  [exit_dag |-> \/ complete.WINDOW_START_TIME[1] > latest_stable_time
                      \/ complete.WINDOW_END_TIME[1] > latest_stable_time,
         record |-> complete]

\* validate_record_timing of airflow_tasks/decide_pipeline_record_task.py
decide_validate_record_timing(rec, t, lookback) ==
    LET max_allowed_end_time == t - parse_time_to_seconds(lookback)
    IN  [exit_dag |-> rec.WINDOW_END_TIME[1] > max_allowed_end_time,
         record |-> rec]

\* ------------------------------------------------------------------------
\* airflow_tasks/store_new_and_pass_valid_record.py
\* ------------------------------------------------------------------------

\* acquire_pipeline_lock: refuses a record IN_PROGRESS under another run id
LockRefused(rec, id) ==
    rec.PIPELINE_STATUS = "IN_PROGRESS" /\ rec.DAG_RUN_ID # id

\* acquire_pipeline_lock: the three assignments
Acquired(rec, id, t) ==
    [rec EXCEPT !.DAG_RUN_ID = id,
                !.PIPELINE_STATUS = "IN_PROGRESS",
                !.PIPELINE_START_TIME = Some(t)]

\* ------------------------------------------------------------------------
\* Resets of the phase tasks
\* ------------------------------------------------------------------------

reset_on_failure_source_to_stageMutant(rec, t) ==
    [rec EXCEPT !.SOURCE_TO_STAGE_INGESTION_START_TIME = None,
                !.SOURCE_TO_STAGE_INGESTION_END_TIME = None,
                !.SOURCE_TO_STAGE_INGESTION_STATUS = "PENDING",
                !.PIPELINE_START_TIME = None,
                !.PIPELINE_END_TIME = None,
                !.PIPELINE_STATUS = "PENDING",
                !.DAG_RUN_ID = "NULL",
                !.RETRY_ATTEMPT = @ + 1,
                !.RECORD_LAST_UPDATED_TIME = Some(t)]

\* reset_on_failure of source_to_stage_transfer.py
reset_on_failure_source_to_stage(rec, t) ==
    [rec EXCEPT !.SOURCE_TO_STAGE_INGESTION_START_TIME = None,
                !.SOURCE_TO_STAGE_INGESTION_END_TIME = None,
                !.SOURCE_TO_STAGE_INGESTION_STATUS = "PENDING",
                !.PIPELINE_START_TIME = None,
                !.PIPELINE_END_TIME = None,
                !.PIPELINE_STATUS = "PENDING",
                !.RETRY_ATTEMPT = @ + 1,
                !.RECORD_LAST_UPDATED_TIME = Some(t)]

reset_on_failure_stage_to_targetMutant(rec, t) ==
    [rec EXCEPT !.SOURCE_TO_STAGE_INGESTION_STATUS = "PENDING",
                !.STAGE_TO_TARGET_INGESTION_START_TIME = None,
                !.STAGE_TO_TARGET_INGESTION_END_TIME = None,
                !.STAGE_TO_TARGET_INGESTION_STATUS = "PENDING",
                !.PIPELINE_START_TIME = None,
                !.PIPELINE_END_TIME = None,
                !.PIPELINE_STATUS = "PENDING",
                !.RETRY_ATTEMPT = @ + 1,
                !.RECORD_LAST_UPDATED_TIME = Some(t)]

\* reset_on_failure of stage_to_target_transfer.py
reset_on_failure_stage_to_target(rec, t) ==
    [rec EXCEPT !.STAGE_TO_TARGET_INGESTION_START_TIME = None,
                !.STAGE_TO_TARGET_INGESTION_END_TIME = None,
                !.STAGE_TO_TARGET_INGESTION_STATUS = "PENDING",
                !.PIPELINE_START_TIME = None,
                !.PIPELINE_END_TIME = None,
                !.PIPELINE_STATUS = "PENDING",
                !.RETRY_ATTEMPT = @ + 1,
                !.RECORD_LAST_UPDATED_TIME = Some(t)]

reset_on_audit_mismatchMutant(rec) ==
    [rec EXCEPT !.SOURCE_TO_STAGE_INGESTION_START_TIME = None,
                !.SOURCE_TO_STAGE_INGESTION_END_TIME = None,
                !.STAGE_TO_TARGET_INGESTION_START_TIME = None,
                !.STAGE_TO_TARGET_INGESTION_END_TIME = None,
                !.STAGE_TO_TARGET_INGESTION_STATUS = "PENDING",
                !.AUDIT_START_TIME = None,
                !.AUDIT_END_TIME = None,
                !.AUDIT_STATUS = "PENDING",
                !.AUDIT_RESULT = "NULL",
                !.PIPELINE_STATUS = "PENDING",
                !.PHASE_COMPLETED = "NULL",
                !.RECORD_FIRST_CREATED_TIME = None,
                !.RETRY_ATTEMPT = @ + 1]

\* reset_on_audit_mismatch
reset_on_audit_mismatch(rec) ==
    [rec EXCEPT !.SOURCE_TO_STAGE_INGESTION_START_TIME = None,
                !.SOURCE_TO_STAGE_INGESTION_END_TIME = None,
                !.SOURCE_TO_STAGE_INGESTION_STATUS = "PENDING",
                !.STAGE_TO_TARGET_INGESTION_START_TIME = None,
                !.STAGE_TO_TARGET_INGESTION_END_TIME = None,
                !.STAGE_TO_TARGET_INGESTION_STATUS = "PENDING",
                !.AUDIT_START_TIME = None,
                !.AUDIT_END_TIME = None,
                !.AUDIT_STATUS = "PENDING",
                !.AUDIT_RESULT = "NULL",
                !.SOURCE_COUNT = None,
                !.TARGET_COUNT = None,
                !.COUNT_DIFFERENCE = None,
                !.PERCENTAGE_DIFFERENCE = None,
                !.PIPELINE_START_TIME = None,
                !.PIPELINE_END_TIME = None,
                !.PIPELINE_STATUS = "PENDING",
                !.PHASE_COMPLETED = "NULL",
                !.RECORD_FIRST_CREATED_TIME = None,
                !.RECORD_LAST_UPDATED_TIME = None,
                !.RETRY_ATTEMPT = @ + 1]

reset_on_process_failureMutant(rec, t) ==
    [rec EXCEPT !.AUDIT_STATUS = "PENDING",
                !.PIPELINE_STATUS = "PENDING",
                !.PHASE_COMPLETED = "NULL",
                !.RETRY_ATTEMPT = @ + 1]

\* reset_on_process_failure of audit_task.py
reset_on_process_failure(rec, t) ==
    [rec EXCEPT !.AUDIT_START_TIME = None,
                !.AUDIT_END_TIME = None,
                !.AUDIT_STATUS = "PENDING",
                !.AUDIT_RESULT = "NULL",
                !.SOURCE_COUNT = None,
                !.TARGET_COUNT = None,
                !.COUNT_DIFFERENCE = None,
                !.PERCENTAGE_DIFFERENCE = None,
                !.PIPELINE_START_TIME = None,
                !.PIPELINE_END_TIME = None,
                !.PIPELINE_STATUS = "PENDING",
                !.RETRY_ATTEMPT = @ + 1,
                !.RECORD_LAST_UPDATED_TIME = Some(t)]

Abs(x) == IF x < 0 THEN -x ELSE x

\* round(n / m, 0) of Python for integers n >= 0, m > 0: the nearest integer,
\* the even one of two that are equally near
RoundHalfEven(n, m) ==
    LET q == n \div m
        r == n % m
    IN  IF 2 * r < m THEN q
        ELSE IF 2 * r > m THEN q + 1
        ELSE IF q % 2 = 0 THEN q ELSE q + 1

calculate_differencesMutant(source_count, target_count) ==
    LET count_difference == Abs(source_count - target_count)
    IN  [count_difference |-> count_difference,
         percentage_difference |->
            IF source_count = 0
            THEN (IF target_count = 0 THEN 0 ELSE 10000)
            ELSE (count_difference * 10000) \div source_count]

\* calculate_differences; percentage_difference, a float rounded to two
\* decimals, is held in hundredths of a percent
calculate_differences(source_count, target_count) ==
    LET count_difference == Abs(source_count - target_count)
    IN  [count_difference |-> count_difference,
         percentage_difference |->
            IF source_count = 0
            THEN (IF target_count = 0 THEN 0 ELSE 10000)
            ELSE RoundHalfEven(count_difference * 10000, source_count)]


\* ------------------------------------------------------------------------
\* The invocations
\* ------------------------------------------------------------------------

TwIdle == [target_day |-> 0, granularity |-> EmptyString,
           continuation_timestamp |-> None, called |-> FALSE, result |-> None]

\* no pure function is being called
FcIdle == [fn |-> "none", args |-> <<>>, result |-> None]

\* no task of the DAG run has returned yet
NoResult == [task |-> "none", success |-> TRUE, reason |-> <<"none">>,
             record |-> None, calls |-> <<>>, faults |-> {}]

VcIdle == [record |-> None, now |-> 0, x_time_back |-> EmptyString,
           called |-> FALSE, core |-> None, legacy |-> None]

Init ==
    /\ now = Now0
    /\ x_time_back \in LookbackChoices
    /\ store = EmptyBag
    /\ pc = [p \in Procs |-> "idle"]
    /\ kind = [p \in Procs |-> "none"]
    /\ route = [p \in Procs |-> "none"]
    /\ dag_run_id = [p \in Procs |-> "NULL"]
    /\ record = [p \in Procs |-> None]
    /\ new_record = [p \in Procs |-> None]
    /\ result = [p \in Procs |-> "none"]
    /\ tw = TwIdle
    /\ vc = VcIdle
    /\ task_result = [p \in Procs |-> NoResult]
    /\ try_number = [p \in Procs |-> 0]
    /\ fc = FcIdle
    /\ in_progress_records = [p \in Procs |-> {}]

\* time passes
Tick ==
    /\ now < Now0 + MaxTicks * TICK
    /\ now' = now + TICK
    /\ UNCHANGED <<x_time_back, store, pc, kind, route, dag_run_id, record,
                   new_record, result, tw, vc, task_result, try_number>>
    /\ UNCHANGED <<fc, in_progress_records>>

\* A run of the DAG starts with store_and_validate_wrapper, which passes
\* context['dag_run'].dag_id as dag_run_id; max_active_runs = 1.
StartDagRun(p) ==
    /\ pc[p] = "idle"
    /\ \A q \in Procs : kind[q] # "dag"
    /\ \E r \in RoutesOf(p) : route' = [route EXCEPT ![p] = r]
    /\ kind' = [kind EXCEPT ![p] = "dag"]
    /\ dag_run_id' = [dag_run_id EXCEPT ![p] = DAG_ID]
    /\ pc' = [pc EXCEPT ![p] = "build"]
    /\ UNCHANGED <<now, x_time_back, store, record, new_record, result, tw, vc, task_result, try_number>>
    /\ UNCHANGED <<fc, in_progress_records>>

\* store_new_and_pass_valid_record(final_config, dag_run_id) called with the
\* caller's own run id
StartStore(p) ==
    /\ pc[p] = "idle"
    /\ \E r \in RoutesOf(p) : route' = [route EXCEPT ![p] = r]
    /\ kind' = [kind EXCEPT ![p] = "store"]
    /\ dag_run_id' = [dag_run_id EXCEPT ![p] = p]
    /\ pc' = [pc EXCEPT ![p] = "build"]
    /\ UNCHANGED <<now, x_time_back, store, record, new_record, result, tw, vc, task_result, try_number>>
    /\ UNCHANGED <<fc, in_progress_records>>

\* decide_pipeline_record(final_config, dag_run_id)
StartDecide(p) ==
    /\ pc[p] = "idle"
    /\ \E r \in RoutesOf(p) : route' = [route EXCEPT ![p] = r]
    /\ kind' = [kind EXCEPT ![p] = "decide"]
    /\ dag_run_id' = [dag_run_id EXCEPT ![p] = p]
    /\ pc' = [pc EXCEPT ![p] = "fetch"]
    /\ UNCHANGED <<now, x_time_back, store, record, new_record, result, tw, vc, task_result, try_number>>
    /\ UNCHANGED <<fc, in_progress_records>>

\* default_args['retries'] = final_config.get('max_retry_task', 1): a task
\* that raises is run once more, on the same XCom value of its upstream task
retries == 1

\* where an invocation goes when the acquire-or-create step ends with res:
\* the wrapper raises AirflowSkipException on exit_dag, so only the cleanup
\* task (trigger_rule all_done) runs; a direct call returns to its caller.
AfterAcquire(p, res) ==
    IF kind[p] = "dag"
    THEN (IF res = "proceed" THEN "pre_validation"
          ELSE IF res = "raised" /\ try_number[p] < retries THEN "build"
          ELSE "cleanup")
    ELSE "returned"

\* the failures of the task counted so far, after it ended with or without
\* an exception
TryAfter(p, failed) ==
    [try_number EXCEPT ![p] =
        IF kind[p] = "dag" /\ failed /\ @ < retries THEN @ + 1 ELSE 0]

\* Step 1: build_complete_pipeline_record
StoreBuild(p) ==
    /\ pc[p] = "build"
    /\ new_record' = [new_record EXCEPT ![p] =
            build_complete_pipeline_record(route[p], now, p, x_time_back,
                latest_timestamp_available(store, route[p]))]
    /\ pc' = [pc EXCEPT ![p] = "upload_new"]
    /\ record' = [record EXCEPT ![p] = None]
    /\ UNCHANGED <<now, x_time_back, store, kind, route, dag_run_id,
                   result, tw, vc, task_result, try_number>>
    /\ UNCHANGED <<fc, in_progress_records>>

\* Step 2: upload the new record; a failed upload raises.  new_record is not
\* read again.
StoreUploadNew(p) ==
    /\ pc[p] = "upload_new"
    /\ IF new_record[p] = None
       THEN /\ pc' = [pc EXCEPT ![p] = "download"]
            /\ UNCHANGED <<store, result, try_number>>
       ELSE \E ok \in BOOLEAN :
            IF ok
            THEN /\ store' = upload_record_to_database(store, new_record[p][1])
                 /\ BagCardinality(store') <= MaxRows
                 /\ pc' = [pc EXCEPT ![p] = "download"]
                 /\ UNCHANGED <<result, try_number>>
            ELSE /\ result' = [result EXCEPT ![p] = "raised"]
                 /\ pc' = [pc EXCEPT ![p] = AfterAcquire(p, "raised")]
                 /\ try_number' = TryAfter(p, TRUE)
                 /\ UNCHANGED store
    /\ new_record' = [new_record EXCEPT ![p] = None]
    /\ UNCHANGED <<now, x_time_back, kind, route, dag_run_id, record, tw, vc,
                   task_result>>
    /\ UNCHANGED <<fc, in_progress_records>>

StoreDownloadMutant(p) ==
    /\ pc[p] = "download"
    /\ IF download_oldest_pending_record(store, route[p]) = {}
       THEN /\ result' = [result EXCEPT ![p] = "raised"]
            /\ pc' = [pc EXCEPT ![p] = AfterAcquire(p, "raised")]
            /\ UNCHANGED record
       ELSE /\ \E x \in download_oldest_pending_record(store, route[p]) :
                  record' = [record EXCEPT ![p] = Some(x)]
            /\ pc' = [pc EXCEPT ![p] = "lock"]
            /\ UNCHANGED result
    /\ UNCHANGED <<now, x_time_back, store, kind, route, dag_run_id,
                   new_record, tw, vc, task_result, try_number>>
    /\ UNCHANGED <<fc, in_progress_records>>

\* Step 4: download_oldest_pending_record
StoreDownload(p) ==
    /\ pc[p] = "download"
    /\ IF download_oldest_pending_record(store, route[p]) = {}
       THEN /\ result' = [result EXCEPT ![p] = "exit"]
            /\ pc' = [pc EXCEPT ![p] = AfterAcquire(p, "exit")]
            /\ UNCHANGED record
       ELSE /\ \E x \in download_oldest_pending_record(store, route[p]) :
                  record' = [record EXCEPT ![p] = Some(x)]
            /\ pc' = [pc EXCEPT ![p] = "lock"]
            /\ UNCHANGED result
    /\ UNCHANGED <<now, x_time_back, store, kind, route, dag_run_id,
                   new_record, tw, vc, task_result, try_number>>
    /\ UNCHANGED <<fc, in_progress_records>>

\* Steps 5 to 8: validate the timing, acquire the lock, upload the locked
\* record, return it
StoreLock(p) ==
    /\ pc[p] = "lock"
    /\ LET v == validate_record_timing(record[p][1], now, p, x_time_back)
       IN  IF v.exit_dag \/ LockRefused(v.record, dag_run_id[p])
           THEN /\ record' = [record EXCEPT ![p] = Some(v.record)]
                /\ result' = [result EXCEPT ![p] = "exit"]
                /\ pc' = [pc EXCEPT ![p] = AfterAcquire(p, "exit")]
                /\ try_number' = TryAfter(p, FALSE)
                /\ UNCHANGED store
           ELSE LET locked == Acquired(v.record, dag_run_id[p], now)
                IN  /\ record' = [record EXCEPT ![p] = Some(locked)]
                    /\ \E ok \in BOOLEAN :
                        IF ok
                        THEN /\ store' = upload_record_to_database(store, locked)
                             /\ result' = [result EXCEPT ![p] = "proceed"]
                             /\ pc' = [pc EXCEPT ![p] = AfterAcquire(p, "proceed")]
                             /\ try_number' = TryAfter(p, FALSE)
                        ELSE /\ result' = [result EXCEPT ![p] = "raised"]
                             /\ pc' = [pc EXCEPT ![p] = AfterAcquire(p, "raised")]
                             /\ try_number' = TryAfter(p, TRUE)
                             /\ UNCHANGED store
    /\ UNCHANGED <<now, x_time_back, kind, route, dag_run_id, new_record, tw, vc,
                   task_result>>
    /\ UNCHANGED <<fc, in_progress_records>>


\* ------------------------------------------------------------------------
\* The phase tasks of a DAG run
\* ------------------------------------------------------------------------

\* the store after upload_record_to_database(final_config, record) whose
\* return value the caller ignores: written when the statement succeeds
Persist(rows, rec, ok) == IF ok THEN upload_record_to_database(rows, rec) ELSE rows

\* pre_validate_counts: exit_dag when the counts match and both are > 0
pre_validate_exit(source_count, target_count) ==
    source_count = target_count /\ source_count > 0 /\ target_count > 0

PreValidation(p) ==
    /\ pc[p] = "pre_validation"
    /\ \E source_count \in Counts, target_count \in Counts :
          pc' = [pc EXCEPT ![p] =
                    IF pre_validate_exit(source_count, target_count)
                    THEN "cleanup" ELSE "source_to_stage"]
    /\ UNCHANGED <<now, x_time_back, store, kind, route, dag_run_id, record,
                   new_record, result, tw, vc, task_result, try_number>>
    /\ UNCHANGED <<fc, in_progress_records>>

\* what a phase task returns, {'success', 'reason', 'record'}, with the calls
\* it made in their order and the steps of it that failed
TaskResult(name, success, reason, rec, calls, faults) ==
    [task |-> name, success |-> success, reason |-> reason, record |-> Some(rec),
     calls |-> calls, faults |-> faults]

\* source_to_stage_task, steps 2 to 5 on success
source_to_stage_completed(rec, t) ==
    [rec EXCEPT !.SOURCE_TO_STAGE_INGESTION_START_TIME = Some(t),
                !.SOURCE_TO_STAGE_INGESTION_END_TIME = Some(t),
                !.SOURCE_TO_STAGE_INGESTION_STATUS = "COMPLETED",
                !.PHASE_COMPLETED = "SOURCE_TO_STAGE",
                !.RECORD_LAST_UPDATED_TIME = Some(t)]

\* the step of source_to_stage_task that returns False, if any
SourceToStageFaults == {"none", "clean_stage_location", "transfer_source_to_stage"}

source_to_stage_taskMutant(rec, t, fault) ==
    IF fault = "none"
    THEN TaskResult("source_to_stage", TRUE, <<"Transfer completed">>,
                    source_to_stage_completed(rec, t),
                    <<"clean_stage_location", "transfer_source_to_stage",
                      "upload_record_to_database">>, {})
    ELSE TaskResult("source_to_stage", FALSE, <<"Transfer failed">>,
                    reset_on_failure_source_to_stage(rec, t),
                    (IF fault = "clean_stage_location"
                     THEN <<"clean_stage_location">>
                     ELSE <<"clean_stage_location", "transfer_source_to_stage">>)
                    \o <<"clean_stage_location", "reset_on_failure",
                         "upload_record_to_database">>,
                    {fault})

\* source_to_stage_task
source_to_stage_task(rec, t, fault) ==
    IF rec.SOURCE_TO_STAGE_INGESTION_STATUS = "COMPLETED"
    THEN TaskResult("source_to_stage", TRUE, <<"Already completed">>, rec, <<>>, {})
    ELSE IF fault = "none"
    THEN TaskResult("source_to_stage", TRUE, <<"Transfer completed">>,
                    source_to_stage_completed(rec, t),
                    <<"clean_stage_location", "transfer_source_to_stage",
                      "upload_record_to_database">>, {})
    ELSE TaskResult("source_to_stage", FALSE, <<"Transfer failed">>,
                    reset_on_failure_source_to_stage(rec, t),
                    (IF fault = "clean_stage_location"
                     THEN <<"clean_stage_location">>
                     ELSE <<"clean_stage_location", "transfer_source_to_stage">>)
                    \o <<"clean_stage_location", "reset_on_failure",
                         "upload_record_to_database">>,
                    {fault})

\* the task has written its record
Uploads(res) == \E i \in DOMAIN res.calls : res.calls[i] = "upload_record_to_database"

\* A task of the DAG run has returned res: its record is written when the
\* upload succeeds; on success the wrapper returns the record to XCom and the
\* next task runs, on failure the wrapper raises, and the task is run again on
\* the XCom value it was given, or, out of retries, the run goes to the
\* cleanup task (trigger_rule all_done).
TaskEnds(p, res, db_ok, next) ==
    /\ res.success \/ record[p][1].RETRY_ATTEMPT < MaxRetry
    /\ task_result' = [task_result EXCEPT ![p] = res]
    /\ store' = IF Uploads(res) THEN Persist(store, res.record[1], db_ok) ELSE store
    /\ record' = IF res.success THEN [record EXCEPT ![p] = res.record] ELSE record
    /\ pc' = [pc EXCEPT ![p] =
                IF res.success THEN next
                ELSE IF try_number[p] < retries THEN pc[p] ELSE "cleanup"]
    /\ try_number' = TryAfter(p, ~res.success)

SourceToStage(p) ==
    /\ pc[p] = "source_to_stage"
    /\ \E fault \in SourceToStageFaults, db_ok \in BOOLEAN :
          TaskEnds(p, source_to_stage_task(record[p][1], now, fault), db_ok,
                   "stage_to_target")
    /\ UNCHANGED <<now, x_time_back, kind, route, dag_run_id, new_record,
                   result, tw, vc>>
    /\ UNCHANGED <<fc, in_progress_records>>

\* stage_to_target_task, steps 2 to 5 on success
stage_to_target_completed(rec, t) ==
    [rec EXCEPT !.STAGE_TO_TARGET_INGESTION_START_TIME = Some(t),
                !.STAGE_TO_TARGET_INGESTION_END_TIME = Some(t),
                !.STAGE_TO_TARGET_INGESTION_STATUS = "COMPLETED",
                !.PHASE_COMPLETED = "STAGE_TO_TARGET",
                !.RECORD_LAST_UPDATED_TIME = Some(t)]

\* the step of stage_to_target_task that returns False, if any
StageToTargetFaults == {"none", "clean_target_location", "transfer_stage_to_target"}

\* stage_to_target_task
stage_to_target_task(rec, t, fault) ==
    IF rec.STAGE_TO_TARGET_INGESTION_STATUS = "COMPLETED"
    THEN TaskResult("stage_to_target", TRUE, <<"Already completed">>, rec, <<>>, {})
    ELSE IF fault = "none"
    THEN TaskResult("stage_to_target", TRUE, <<"Transfer completed">>,
                    stage_to_target_completed(rec, t),
                    <<"clean_target_location", "transfer_stage_to_target",
                      "upload_record_to_database">>, {})
    ELSE TaskResult("stage_to_target", FALSE, <<"Transfer failed">>,
                    reset_on_failure_stage_to_target(rec, t),
                    (IF fault = "clean_target_location"
                     THEN <<"clean_target_location">>
                     ELSE <<"clean_target_location", "transfer_stage_to_target">>)
                    \o <<"clean_target_location", "reset_on_failure",
                         "upload_record_to_database">>,
                    {fault})

StageToTarget(p) ==
    /\ pc[p] = "stage_to_target"
    /\ \E fault \in StageToTargetFaults, db_ok \in BOOLEAN :
          TaskEnds(p, stage_to_target_task(record[p][1], now, fault), db_ok, "audit")
    /\ UNCHANGED <<now, x_time_back, kind, route, dag_run_id, new_record,
                   result, tw, vc>>
    /\ UNCHANGED <<fc, in_progress_records>>

\* get_source_count: the count of the Elasticsearch query, 0 when the query
\* or the connection fails
get_source_count(count, failed) == IF failed THEN 0 ELSE count

\* get_target_count: the count the last poll of the raw table returned, 0
\* when the query fails
get_target_count(count, failed) == IF failed THEN 0 ELSE count

\* audit_task, steps 2 to 6: times, counts and differences
audit_measured(rec, source_count, target_count, t) ==
    LET differences == calculate_differences(source_count, target_count)
    IN  [rec EXCEPT !.AUDIT_START_TIME = Some(t),
                    !.SOURCE_COUNT = Some(source_count),
                    !.TARGET_COUNT = Some(target_count),
                    !.COUNT_DIFFERENCE = Some(differences.count_difference),
                    !.PERCENTAGE_DIFFERENCE = Some(differences.percentage_difference),
                    !.AUDIT_END_TIME = Some(t)]

audit_passedMutant(rec, t) ==
    [rec EXCEPT !.AUDIT_STATUS = "COMPLETED",
                !.AUDIT_RESULT = "PASS",
                !.PHASE_COMPLETED = "SOURCE_TO_STAGE",
                !.RECORD_LAST_UPDATED_TIME = Some(t)]

\* audit_task, step 7, the success path
audit_passed(rec, t) ==
    [rec EXCEPT !.AUDIT_STATUS = "COMPLETED",
                !.AUDIT_RESULT = "PASS",
                !.PHASE_COMPLETED = "AUDIT",
                !.RECORD_LAST_UPDATED_TIME = Some(t)]

\* audit_task, the calls of the two branches of step 7
audit_pass_calls == <<"upload_record_to_database">>

audit_mismatch_callsMutant ==
    <<"clean_stage_location", "reset_on_audit_mismatch",
      "upload_record_to_database", "clean_target_location">>

audit_mismatch_calls ==
    <<"clean_stage_location", "clean_target_location", "reset_on_audit_mismatch",
      "upload_record_to_database">>

\* what may go wrong in audit_task: a count query that fails inside
\* get_source_count or get_target_count (caught there), or an exception that
\* reaches audit_task's own handler ("import": the import of the
\* elasticsearch package at the head of get_source_count)
AuditFaults ==
    {{}, {"get_source_count"}, {"get_target_count"},
     {"get_source_count", "get_target_count"}, {"import"}}

\* audit_task
audit_task(rec, t, faults, es_count, raw_count) ==
    IF rec.AUDIT_STATUS = "COMPLETED"
    THEN TaskResult("audit", TRUE, <<"Already completed">>, rec, <<>>, {})
    ELSE IF "import" \in faults
    THEN TaskResult("audit", FALSE, <<"Audit process failed">>,
                    reset_on_process_failure(
                        [rec EXCEPT !.AUDIT_START_TIME = Some(t)], t),
                    <<"reset_on_process_failure", "upload_record_to_database">>,
                    faults)
    ELSE LET source_count == get_source_count(es_count, "get_source_count" \in faults)
             target_count == get_target_count(raw_count, "get_target_count" \in faults)
             measured == audit_measured(rec, source_count, target_count, t)
         IN  IF source_count = target_count
             THEN TaskResult("audit", TRUE, <<"Audit passed - counts match">>,
                             audit_passed(measured, t), audit_pass_calls, faults)
             ELSE TaskResult("audit", FALSE,
                             <<"Data corruption - count mismatch", source_count,
                               target_count>>,
                             reset_on_audit_mismatch(measured),
                             audit_mismatch_calls, faults)

Audit(p) ==
    /\ pc[p] = "audit"
    /\ \E faults \in AuditFaults, es_count \in Counts, raw_count \in Counts,
          db_ok \in BOOLEAN :
          TaskEnds(p, audit_task(record[p][1], now, faults, es_count, raw_count),
                   db_ok, "cleanup")
    /\ UNCHANGED <<now, x_time_back, kind, route, dag_run_id, new_record,
                   result, tw, vc>>
    /\ UNCHANGED <<fc, in_progress_records>>

\* stale_threshold_hours, 2 unless the configuration sets it
stale_threshold == 2 * HOUR

\* cleanup_stale_locks: the rows read carry the table's upper-case columns, so
\* record.get('pipeline_locked_at', '') is '' for the first IN_PROGRESS
\* record, which pendulum.parse does not read as a time before cutoff_time;
\* and update_record_in_database(record) lacks its first argument and raises
\* before any statement is sent.  Whatever the records, the pass writes
\* nothing.
cleanup_stale_locksMutant(rows, r) ==
    LET found == get_all_in_progress_records(rows, r)
        x == CHOOSE x \in found : TRUE
    IN  IF found = {}
        THEN rows
        ELSE update_record_in_database(rows,
                 [x EXCEPT !.PIPELINE_STATUS = "PENDING",
                           !.DAG_RUN_ID = "NULL",
                           !.PIPELINE_START_TIME = None,
                           !.PIPELINE_END_TIME = None,
                           !.RETRY_ATTEMPT = @ + 1])
cleanup_stale_locks(rows, r) == rows

Cleanup(p) ==
    /\ pc[p] = "cleanup"
    /\ store' = cleanup_stale_locks(store, route[p])
    /\ pc' = [pc EXCEPT ![p] = "returned"]
    /\ UNCHANGED <<now, x_time_back, kind, route, dag_run_id, record,
                   new_record, result, tw, vc, task_result, try_number>>
    /\ UNCHANGED <<fc, in_progress_records>>

\* the invocation is over; its locals are gone
Finish(p) ==
    /\ pc[p] = "returned"
    /\ pc' = [pc EXCEPT ![p] = "idle"]
    /\ kind' = [kind EXCEPT ![p] = "none"]
    /\ route' = [route EXCEPT ![p] = "none"]
    /\ dag_run_id' = [dag_run_id EXCEPT ![p] = "NULL"]
    /\ record' = [record EXCEPT ![p] = None]
    /\ new_record' = [new_record EXCEPT ![p] = None]
    /\ result' = [result EXCEPT ![p] = "none"]
    /\ task_result' = [task_result EXCEPT ![p] = NoResult]
    /\ try_number' = [try_number EXCEPT ![p] = 0]
    /\ in_progress_records' = [in_progress_records EXCEPT ![p] = {}]
    /\ UNCHANGED <<now, x_time_back, store, tw, vc>>
    /\ UNCHANGED fc

\* ------------------------------------------------------------------------
\* airflow_tasks/cleanup_stale_locks.py, called on its own: the read of the
\* IN_PROGRESS records and the loop over them are two steps, between which
\* the tasks of a run may write
\* ------------------------------------------------------------------------

\* cleanup_stale_locks(final_config), outside a run of the DAG
StartReclaim(p) ==
    /\ pc[p] = "idle"
    /\ route' = [route EXCEPT ![p] = "routeA"]
    /\ kind' = [kind EXCEPT ![p] = "reclaim"]
    /\ pc' = [pc EXCEPT ![p] = "reclaim_read"]
    /\ UNCHANGED <<now, x_time_back, store, dag_run_id, record, new_record,
                   result, tw, vc, task_result, try_number, fc,
                   in_progress_records>>

\* in_progress_records = get_all_in_progress_records(final_config)
ReclaimRead(p) ==
    /\ pc[p] = "reclaim_read"
    /\ in_progress_records' = [in_progress_records EXCEPT ![p] =
            get_all_in_progress_records(store, route[p])]
    /\ pc' = [pc EXCEPT ![p] = "reclaim_write"]
    /\ UNCHANGED <<now, x_time_back, store, kind, route, dag_run_id, record,
                   new_record, result, tw, vc, task_result, try_number, fc>>

reset_stale_recordsMutant(rows, records, t) ==
    LET stale == {x \in records : x.PIPELINE_START_TIME # None
                                     /\ t - x.PIPELINE_START_TIME[1] > stale_threshold}
        x == CHOOSE x \in stale : TRUE
    IN  IF stale = {}
        THEN rows
        ELSE update_record_in_database(rows,
                 [x EXCEPT !.PIPELINE_STATUS = "PENDING",
                           !.DAG_RUN_ID = "NULL",
                           !.PIPELINE_START_TIME = None,
                           !.PIPELINE_END_TIME = None,
                           !.RETRY_ATTEMPT = @ + 1])

\* the loop of cleanup_stale_locks over the records read: the table after
\* it.  No record read has the key 'pipeline_locked_at', and
\* update_record_in_database(record) raises for want of an argument, so no
\* iteration sends a statement.
reset_stale_records(rows, records, t) == rows

ReclaimWrite(p) ==
    /\ pc[p] = "reclaim_write"
    /\ store' = reset_stale_records(store, in_progress_records[p], now)
    /\ pc' = [pc EXCEPT ![p] = "returned"]
    /\ UNCHANGED <<now, x_time_back, kind, route, dag_run_id, record,
                   new_record, result, tw, vc, task_result, try_number, fc,
                   in_progress_records>>


\* ------------------------------------------------------------------------
\* airflow_tasks/decide_pipeline_record_task.py : decide_pipeline_record
\* ------------------------------------------------------------------------

\* Step 1: get_the_oldest_record_from_drive
DecideFetch(p) ==
    /\ pc[p] = "fetch"
    /\ IF download_oldest_pending_record(store, route[p]) = {}
       THEN /\ pc' = [pc EXCEPT ![p] = "d_build"]
            /\ UNCHANGED record
       ELSE /\ \E x \in download_oldest_pending_record(store, route[p]) :
                  record' = [record EXCEPT ![p] = Some(x)]
            /\ pc' = [pc EXCEPT ![p] = "d_lock"]
    /\ UNCHANGED <<now, x_time_back, store, kind, route, dag_run_id,
                   new_record, result, tw, vc, task_result, try_number>>
    /\ UNCHANGED <<fc, in_progress_records>>

\* the three assignments of the "record found" branch
decide_locked(rec, id, t) ==
    [rec EXCEPT !.PIPELINE_STATUS = "IN_PROGRESS",
                !.PIPELINE_START_TIME = Some(t),
                !.DAG_RUN_ID = id]

\* a pending record was found: validate, mark IN_PROGRESS, write back
DecideLock(p) ==
    /\ pc[p] = "d_lock"
    /\ LET v == decide_validate_record_timing(record[p][1], now, x_time_back)
       IN  IF v.exit_dag
           THEN /\ result' = [result EXCEPT ![p] = "exit"]
                /\ UNCHANGED <<record, store>>
           ELSE LET locked == decide_locked(v.record, dag_run_id[p], now)
                IN  /\ record' = [record EXCEPT ![p] = Some(locked)]
                    /\ \E ok \in BOOLEAN :
                        IF ok
                        THEN /\ BagCardinality(store) < MaxRows
                             /\ store' = upload_record_to_drive_table(store, locked)
                             /\ result' = [result EXCEPT ![p] = "proceed"]
                        ELSE /\ result' = [result EXCEPT ![p] = "raised"]
                             /\ UNCHANGED store
    /\ pc' = [pc EXCEPT ![p] = "returned"]
    /\ UNCHANGED <<now, x_time_back, kind, route, dag_run_id, new_record, tw, vc, task_result, try_number>>
    /\ UNCHANGED <<fc, in_progress_records>>

\* Step 2: no pending record, build a new one
DecideBuild(p) ==
    /\ pc[p] = "d_build"
    /\ new_record' = [new_record EXCEPT ![p] =
            build_complete_pipeline_record(route[p], now, p, x_time_back,
                latest_timestamp_available(store, route[p]))]
    /\ IF new_record'[p] = None
       THEN /\ result' = [result EXCEPT ![p] = "exit"]
            /\ pc' = [pc EXCEPT ![p] = "returned"]
       ELSE /\ pc' = [pc EXCEPT ![p] = "d_upload_new"]
            /\ UNCHANGED result
    /\ UNCHANGED <<now, x_time_back, store, kind, route, dag_run_id, record, tw, vc, task_result, try_number>>
    /\ UNCHANGED <<fc, in_progress_records>>

\* Step 3: upload the new record, which is not read again
DecideUploadNew(p) ==
    /\ pc[p] = "d_upload_new"
    /\ \E ok \in BOOLEAN :
          IF ok
          THEN /\ BagCardinality(store) < MaxRows
               /\ store' = upload_record_to_drive_table(store, new_record[p][1])
               /\ pc' = [pc EXCEPT ![p] = "d_refetch"]
               /\ UNCHANGED result
          ELSE /\ result' = [result EXCEPT ![p] = "raised"]
               /\ pc' = [pc EXCEPT ![p] = "returned"]
               /\ UNCHANGED store
    /\ new_record' = [new_record EXCEPT ![p] = None]
    /\ UNCHANGED <<now, x_time_back, kind, route, dag_run_id, record, tw, vc, task_result, try_number>>
    /\ UNCHANGED <<fc, in_progress_records>>

\* Step 4: re-fetch and validate; the record is returned as fetched
DecideRefetch(p) ==
    /\ pc[p] = "d_refetch"
    /\ IF download_oldest_pending_record(store, route[p]) = {}
       THEN /\ result' = [result EXCEPT ![p] = "exit"]
            /\ UNCHANGED record
       ELSE \E x \in download_oldest_pending_record(store, route[p]) :
            /\ record' = [record EXCEPT ![p] = Some(x)]
            /\ result' = [result EXCEPT ![p] =
                  IF decide_validate_record_timing(x, now, x_time_back).exit_dag
                  THEN "exit" ELSE "proceed"]
    /\ pc' = [pc EXCEPT ![p] = "returned"]
    /\ UNCHANGED <<now, x_time_back, store, kind, route, dag_run_id,
                   new_record, tw, vc, task_result, try_number>>
    /\ UNCHANGED <<fc, in_progress_records>>

\* ------------------------------------------------------------------------
\* Specification of the pipeline
\* ------------------------------------------------------------------------

\* no invocation is under way
AllIdle == \A q \in Procs : pc[q] = "idle"

\* Runs of the DAG (max_active_runs = 1) and, between them, direct calls of
\* decide_pipeline_record, the function that inserts rows: one invocation at
\* a time.
Next ==
    \/ Tick
    \/ \E p \in Procs :
        \/ AllIdle /\ StartDagRun(p)
        \/ AllIdle /\ StartDecide(p)
        \/ StoreBuild(p)
        \/ StoreUploadNew(p)
        \/ StoreDownload(p)
        \/ StoreLock(p)
        \/ PreValidation(p)
        \/ SourceToStage(p)
        \/ StageToTarget(p)
        \/ Audit(p)
        \/ Cleanup(p)
        \/ DecideFetch(p)
        \/ DecideLock(p)
        \/ DecideBuild(p)
        \/ DecideUploadNew(p)
        \/ DecideRefetch(p)
        \/ Finish(p)

Spec == Init /\ [][Next]_vars

\* Direct calls of the two acquire-or-create functions by two callers whose
\* steps interleave.
NextCalls ==
    \/ Tick
    \/ \E p \in Procs :
        \/ StartStore(p)
        \/ StartDecide(p)
        \/ StoreBuild(p)
        \/ StoreUploadNew(p)
        \/ StoreDownload(p)
        \/ StoreLock(p)
        \/ DecideFetch(p)
        \/ DecideLock(p)
        \/ DecideBuild(p)
        \/ DecideUploadNew(p)
        \/ DecideRefetch(p)
        \/ Finish(p)

SpecCalls == Init /\ [][NextCalls]_vars

\* ------------------------------------------------------------------------
\* Specification of one run of the DAG from the moment its record is locked
\* ------------------------------------------------------------------------

\* the PENDING rows a run can find: a new record, and the same record as the
\* resets of an earlier run left it
RunRows ==
    LET fresh == build_complete_pipeline_record("routeA", Now0, "p2",
                     TimeString(1, Absent, Absent, Absent), None)[1]
        locked == Acquired(fresh, DAG_ID, Now0)
        staged == source_to_stage_completed(locked, Now0)
        loaded == stage_to_target_completed(staged, Now0)
    IN  {fresh,
         reset_on_failure_source_to_stage(locked, Now0),
         reset_on_failure_stage_to_target(staged, Now0),
         reset_on_process_failure(loaded, Now0),
         reset_on_audit_mismatch(audit_measured(loaded, 1, 0, Now0))}

\* the state in which store_and_validate_wrapper has returned the record of
\* the only row of the table
InitRun ==
    /\ now = Now0
    /\ x_time_back = TimeString(1, Absent, Absent, Absent)
    /\ \E x \in RunRows :
          LET locked == Acquired(validate_record_timing(x, now, "p1", x_time_back).record,
                                 DAG_ID, now)
          IN  /\ store = upload_record_to_database(SetToBag({x}), locked)
              /\ record = [p \in Procs |-> IF p = "p1" THEN Some(locked) ELSE None]
    /\ pc = [p \in Procs |-> IF p = "p1" THEN "pre_validation" ELSE "idle"]
    /\ kind = [p \in Procs |-> IF p = "p1" THEN "dag" ELSE "none"]
    /\ route = [p \in Procs |-> IF p = "p1" THEN "routeA" ELSE "none"]
    /\ dag_run_id = [p \in Procs |-> IF p = "p1" THEN DAG_ID ELSE "NULL"]
    /\ new_record = [p \in Procs |-> None]
    /\ result = [p \in Procs |-> IF p = "p1" THEN "proceed" ELSE "none"]
    /\ tw = TwIdle
    /\ vc = VcIdle
    /\ task_result = [p \in Procs |-> NoResult]
    /\ try_number = [p \in Procs |-> 0]
    /\ fc = FcIdle
    /\ in_progress_records = [p \in Procs |-> {}]

NextRun ==
    \/ Tick
    \/ \E p \in {"p1"} :
        \/ PreValidation(p)
        \/ SourceToStage(p)
        \/ StageToTarget(p)
        \/ Audit(p)
        \/ Cleanup(p)
        \/ Finish(p)

SpecRun == InitRun /\ [][NextRun]_vars

\* ------------------------------------------------------------------------
\* Specification of one run of the DAG with reclaim passes beside it
\* ------------------------------------------------------------------------

NextReclaim ==
    \/ Tick
    \/ \E p \in {"p1"} :
        \/ PreValidation(p)
        \/ SourceToStage(p)
        \/ StageToTarget(p)
        \/ Audit(p)
        \/ Cleanup(p)
    \/ \E p \in {"p2"} :
        \/ StartReclaim(p)
        \/ ReclaimRead(p)
        \/ ReclaimWrite(p)
    \/ \E p \in Procs : Finish(p)

SpecReclaim == InitRun /\ [][NextReclaim]_vars

\* The same, with the scheduling the reclaim pass is given: time passes,
\* and cleanup_stale_locks is invoked again and again and each pass runs to
\* its end.  The run itself may stop at any point.
SpecReclaimFair ==
    /\ InitRun
    /\ [][NextReclaim]_vars
    /\ WF_vars(Tick)
    /\ WF_vars(StartReclaim("p2"))
    /\ WF_vars(ReclaimRead("p2"))
    /\ WF_vars(ReclaimWrite("p2"))
    /\ WF_vars(Finish("p2"))

\* ------------------------------------------------------------------------
\* Specification of calculate_time_window alone
\* ------------------------------------------------------------------------

\* target days are the day boundaries 1 .. MaxDay
MaxDay == 2

\* granularity strings: '1h', '3h', '5h', '30m', '1d', '1d2h30m20s', '90s', '1s'
Granularities ==
    {TimeString(Absent, 1, Absent, Absent), TimeString(Absent, 3, Absent, Absent),
     TimeString(Absent, 5, Absent, Absent), TimeString(Absent, Absent, 30, Absent),
     TimeString(1, Absent, Absent, Absent), TimeString(1, 2, 30, 20),
     TimeString(Absent, Absent, Absent, 90), TimeString(Absent, Absent, Absent, 1)}

\* continuation timestamps, as offsets from the target day
ContinuationOffsets ==
    {0 - HOUR, 0 - 1, 0, 1, 2 * HOUR, 12 * HOUR, 22 * HOUR, 23 * HOUR,
     23 * HOUR + 30 * MINUTE, DAY - 1, DAY, DAY + 1, DAY + HOUR}

\* the argument triples of the calls that are checked
WindowInputSet ==
    UNION {{[target_day |-> k * DAY, granularity |-> g,
             continuation_timestamp |-> c, called |-> FALSE, result |-> None] :
                g \in Granularities,
                c \in {None} \cup {Some(k * DAY + o) : o \in ContinuationOffsets}} :
           k \in 1 .. MaxDay}

InitWindow ==
    /\ now = Now0
    /\ x_time_back = TimeString(1, Absent, Absent, Absent)
    /\ store = EmptyBag
    /\ pc = [p \in Procs |-> "idle"]
    /\ kind = [p \in Procs |-> "none"]
    /\ route = [p \in Procs |-> "none"]
    /\ dag_run_id = [p \in Procs |-> "NULL"]
    /\ record = [p \in Procs |-> None]
    /\ new_record = [p \in Procs |-> None]
    /\ result = [p \in Procs |-> "none"]
    /\ tw \in WindowInputSet
    /\ vc = VcIdle
    /\ task_result = [p \in Procs |-> NoResult]
    /\ try_number = [p \in Procs |-> 0]
    /\ fc = FcIdle
    /\ in_progress_records = [p \in Procs |-> {}]

\* one call of calculate_time_window(target_day, granularity, continuation_timestamp)
CallWindow ==
    /\ ~tw.called
    /\ tw' = [tw EXCEPT !.called = TRUE,
                        !.result = calculate_time_window(tw.target_day,
                                       tw.granularity, tw.continuation_timestamp)]
    /\ UNCHANGED <<pvars, vc, task_result, try_number>>
    /\ UNCHANGED <<fc, in_progress_records>>

\* the caller moves on to other arguments
NextWindowInput ==
    /\ tw.called
    /\ tw' \in WindowInputSet
    /\ UNCHANGED <<pvars, vc, task_result, try_number>>
    /\ UNCHANGED <<fc, in_progress_records>>

NextWindow == CallWindow \/ NextWindowInput

SpecWindow == InitWindow /\ [][NextWindow]_vars

\* ------------------------------------------------------------------------
\* Specification of calculate_differences alone
\* ------------------------------------------------------------------------

\* the state of a program in which no invocation runs and the table is empty
Idle ==
    /\ now = Now0
    /\ x_time_back = TimeString(1, Absent, Absent, Absent)
    /\ store = EmptyBag
    /\ pc = [p \in Procs |-> "idle"]
    /\ kind = [p \in Procs |-> "none"]
    /\ route = [p \in Procs |-> "none"]
    /\ dag_run_id = [p \in Procs |-> "NULL"]
    /\ record = [p \in Procs |-> None]
    /\ new_record = [p \in Procs |-> None]
    /\ result = [p \in Procs |-> "none"]
    /\ tw = TwIdle
    /\ vc = VcIdle
    /\ task_result = [p \in Procs |-> NoResult]
    /\ try_number = [p \in Procs |-> 0]
    /\ in_progress_records = [p \in Procs |-> {}]

\* the counts of the calls that are checked: 0 .. MaxDifferenceCount, and the
\* 80 and 100 of the documented example
MaxDifferenceCount == 9

DifferenceCounts == (0 .. MaxDifferenceCount) \cup {80, 100}

DifferencesInputSet ==
    {[fn |-> "calculate_differences", args |-> <<s, t>>, result |-> None] :
        s \in DifferenceCounts, t \in DifferenceCounts}

InitDifferences == Idle /\ fc \in DifferencesInputSet

\* one call of calculate_differences(source_count, target_count)
CallDifferences ==
    /\ fc.result = None
    /\ fc' = [fc EXCEPT !.result = Some(calculate_differences(fc.args[1], fc.args[2]))]
    /\ UNCHANGED <<pvars, tw, vc, task_result, try_number, in_progress_records>>

NextDifferencesInput ==
    /\ fc.result # None
    /\ fc' \in DifferencesInputSet
    /\ UNCHANGED <<pvars, tw, vc, task_result, try_number, in_progress_records>>

NextDifferences == CallDifferences \/ NextDifferencesInput

SpecDifferences == InitDifferences /\ [][NextDifferences]_vars

\* ------------------------------------------------------------------------
\* Specification of create_hash alone
\* ------------------------------------------------------------------------

\* the values hashed: 1 and '1', None and 'None', 'a', 'a|1' and ''
HashValues ==
    {PyValue("int", <<"1">>), PyValue("str", <<"1">>),
     PyValue("NoneType", <<"N", "o", "n", "e">>),
     PyValue("str", <<"N", "o", "n", "e">>),
     PyValue("str", <<"a">>), PyValue("str", <<"a", "|", "1">>),
     PyValue("str", <<>>)}

\* create_hash is called with 1 .. MaxHashInputs values
MaxHashInputs == 2

HashTuples == UNION {[1 .. n -> HashValues] : n \in 1 .. MaxHashInputs}

\* the calls that are checked: a tuple of values, and the same tuple with
\* the value at one position replaced
HashInputSet ==
    UNION {{[fn |-> "create_hash",
             args |-> <<values, [values EXCEPT ![i] = v]>>,
             result |-> None] : i \in DOMAIN values, v \in HashValues} :
           values \in HashTuples}

InitHash == Idle /\ fc \in HashInputSet

\* create_hash(*values) for both tuples
CallHash ==
    /\ fc.result = None
    /\ fc' = [fc EXCEPT !.result = Some(<<create_hash_text(fc.args[1]),
                                          create_hash_text(fc.args[2])>>)]
    /\ UNCHANGED <<pvars, tw, vc, task_result, try_number, in_progress_records>>

NextHash == CallHash

SpecHash == InitHash /\ [][NextHash]_vars

\* ------------------------------------------------------------------------
\* Specification of ensure_complete_record alone
\* ------------------------------------------------------------------------

\* the field names a check_fields list is made of: two nullable columns, a
\* text column and a key no record has
CheckFieldNames == {"RECORD_FIRST_CREATED_TIME", "PIPELINE_START_TIME",
                    "DAG_RUN_ID", "key_x"}

\* final_config.get('check_fields'): absent, or a list of up to
\* MaxCheckFields names
MaxCheckFields == 2

CheckFieldChoices ==
    {None} \cup {Some(S) : S \in {T \in SUBSET CheckFieldNames :
                                        Cardinality(T) <= MaxCheckFields}}

\* the records checked: the first window of days 1 and 2 as built, locked,
\* left by a full reset, and with an empty string for DAG_RUN_ID
CompleteRecords ==
    LET built == {build_complete_pipeline_record("routeA", d + DAY, "p1",
                      TimeString(1, Absent, Absent, Absent), None)[1] :
                        d \in {DAY, 2 * DAY}}
        locked == {Acquired(x, DAG_ID, Now0) : x \in built}
        reset == {reset_on_audit_mismatch(x) : x \in locked}
        all == built \cup locked \cup reset
    IN  all \cup {[x EXCEPT !.DAG_RUN_ID = ""] : x \in all}

CompleteInputSet ==
    {[fn |-> "ensure_complete_record", args |-> <<fields, rec>>, result |-> None] :
        fields \in CheckFieldChoices, rec \in CompleteRecords}

InitComplete == Idle /\ fc \in CompleteInputSet

\* one call of ensure_complete_record(record, final_config) by invocation
\* "p2" at the time now
CallComplete ==
    /\ fc.result = None
    /\ fc' = [fc EXCEPT !.result = Some(EnsureComplete(fc.args[1], fc.args[2],
                                                       now, "p2"))]
    /\ UNCHANGED <<pvars, tw, vc, task_result, try_number, in_progress_records>>

NextComplete == CallComplete

SpecComplete == InitComplete /\ [][NextComplete]_vars

\* ------------------------------------------------------------------------
\* Specification of get_target_count of audit_task.py alone: the first read
\* of the target table and the monitoring loop
\* ------------------------------------------------------------------------

\* db_get_target_count returns a count in 0 .. MaxPollCount
MaxPollCount == 5

TargetSufficientMutant(source_count, current_target_count) ==
    source_count < current_target_count

\* if source_count <= current_target_count: return immediately
TargetSufficient(source_count, current_target_count) ==
    source_count <= current_target_count

WithinWaitMutant(elapsed, max_wait_time) == elapsed <= max_wait_time

\* while time.time() - start_time < max_wait_time
WithinWait(elapsed, max_wait_time) == elapsed < max_wait_time

DifferenceReducingMutant(source_count, current_target_count, previous_target_count) ==
    source_count - current_target_count <= source_count - previous_target_count

\* if current_difference < previous_difference
DifferenceReducing(source_count, current_target_count, previous_target_count) ==
    source_count - current_target_count < source_count - previous_target_count

\* a call get_target_count(source_count, final_config, record): the source
\* count, snowpipe_max_wait_seconds and snowpipe_check_interval_seconds (the
\* defaults 600 and 120 among them)
InitPoll ==
    /\ Idle
    /\ \E source_count \in 0 .. MaxPollCount :
       \E wait \in {<<600, 120>>, <<500, 120>>, <<600, 600>>, <<300, 700>>, <<0, 120>>} :
          fc = [fn |-> "get_target_count",
                args |-> <<source_count, wait[1], wait[2]>>,
                result |-> None]

\* the first read, and the return when the target has caught up; result
\* holds the locals of the call, the reads made so far, the number of sleeps
\* and the seconds since start_time
PollStart ==
    /\ fc.fn = "get_target_count"
    /\ fc.result = None
    /\ \E count \in 0 .. MaxPollCount :
          fc' = [fc EXCEPT !.result =
                    Some([at |-> IF TargetSufficient(fc.args[1], count)
                                 THEN "returned" ELSE "while",
                          current_target_count |-> count,
                          previous_target_count |-> count,
                          reads |-> <<count>>,
                          sleeps |-> 0,
                          elapsed |-> 0])]
    /\ UNCHANGED <<pvars, tw, vc, task_result, try_number, in_progress_records>>

\* the test of the while loop: another iteration, or the return of
\* current_target_count
PollWhile ==
    /\ fc.fn = "get_target_count"
    /\ fc.result # None
    /\ fc.result[1].at = "while"
    /\ fc' = [fc EXCEPT !.result[1].at =
                 IF WithinWait(fc.result[1].elapsed, fc.args[2])
                 THEN "sleep" ELSE "returned"]
    /\ UNCHANGED <<pvars, tw, vc, task_result, try_number, in_progress_records>>

\* one iteration: time.sleep(check_interval), the read (which takes 0 or 30
\* seconds), and the comparison of the differences; break when the
\* difference is not reducing
PollCheck ==
    /\ fc.fn = "get_target_count"
    /\ fc.result # None
    /\ fc.result[1].at = "sleep"
    /\ \E count \in 0 .. MaxPollCount, read_seconds \in {0, 30} :
          LET l == fc.result[1]
              reducing == DifferenceReducing(fc.args[1], count, l.previous_target_count)
          IN  fc' = [fc EXCEPT !.result =
                        Some([at |-> IF reducing THEN "while" ELSE "returned",
                              current_target_count |-> count,
                              previous_target_count |->
                                  IF reducing THEN count ELSE l.previous_target_count,
                              reads |-> Append(l.reads, count),
                              sleeps |-> l.sleeps + 1,
                              elapsed |-> l.elapsed + fc.args[3] + read_seconds])]
    /\ UNCHANGED <<pvars, tw, vc, task_result, try_number, in_progress_records>>

NextPoll == PollStart \/ PollWhile \/ PollCheck

SpecPoll == InitPoll /\ [][NextPoll]_vars

\* the call runs on: each of its steps is taken
SpecPollFair == SpecPoll /\ WF_vars(NextPoll)

\* ------------------------------------------------------------------------
\* Specification of the two timing validators alone
\* ------------------------------------------------------------------------

\* the clock readings of the calls: DAY + k * 6h for k in 0 .. MaxClockSteps
MaxClockSteps == 12

ValidateNows == {DAY + k * 6 * HOUR : k \in 0 .. MaxClockSteps}

\* x_time_back strings: '6h', '12h', '13h', '1d'
ValidateLookbacks ==
    {TimeString(Absent, 6, Absent, Absent), TimeString(Absent, 12, Absent, Absent),
     TimeString(Absent, 13, Absent, Absent), TimeString(1, Absent, Absent, Absent)}

\* the records validated: the windows of granularity that the generator cuts
\* from days 1 and 2, as built, and as left by a full reset
ValidateRecords ==
    LET built == {build_complete_pipeline_record("routeA", d + DAY, "p1",
                      TimeString(1, Absent, Absent, Absent), c) :
                        d \in {DAY, 2 * DAY},
                        c \in {None} \cup {Some(x) : x \in {DAY + 12 * HOUR, 2 * DAY,
                                                           2 * DAY + 12 * HOUR}}}
        records == {b[1] : b \in built \ {None}}
    IN  records \cup {reset_on_audit_mismatch(x) : x \in records}

ValidateInputSet ==
    {[record |-> Some(x), now |-> t, x_time_back |-> b, called |-> FALSE,
      core |-> None, legacy |-> None] :
        x \in ValidateRecords, t \in ValidateNows, b \in ValidateLookbacks}

InitValidate ==
    /\ now = Now0
    /\ x_time_back = TimeString(1, Absent, Absent, Absent)
    /\ store = EmptyBag
    /\ pc = [p \in Procs |-> "idle"]
    /\ kind = [p \in Procs |-> "none"]
    /\ route = [p \in Procs |-> "none"]
    /\ dag_run_id = [p \in Procs |-> "NULL"]
    /\ record = [p \in Procs |-> None]
    /\ new_record = [p \in Procs |-> None]
    /\ result = [p \in Procs |-> "none"]
    /\ tw = TwIdle
    /\ vc \in ValidateInputSet
    /\ task_result = [p \in Procs |-> NoResult]
    /\ try_number = [p \in Procs |-> 0]
    /\ fc = FcIdle
    /\ in_progress_records = [p \in Procs |-> {}]

\* one call of validate_record_timing(final_config, record) of
\* core/record_validation.py and one of the function of the same name in
\* airflow_tasks/decide_pipeline_record_task.py, on the same arguments
CallValidate ==
    /\ ~vc.called
    /\ vc' = [vc EXCEPT
                !.called = TRUE,
                !.core = Some(validate_record_timing(vc.record[1], vc.now, "p2",
                                                     vc.x_time_back)),
                !.legacy = Some(decide_validate_record_timing(vc.record[1], vc.now,
                                                              vc.x_time_back))]
    /\ UNCHANGED <<pvars, tw, task_result, try_number>>
    /\ UNCHANGED <<fc, in_progress_records>>

\* the caller moves on to other arguments
NextValidateInput ==
    /\ vc.called
    /\ vc' \in ValidateInputSet
    /\ UNCHANGED <<pvars, tw, task_result, try_number>>
    /\ UNCHANGED <<fc, in_progress_records>>

NextValidate == CallValidate \/ NextValidateInput

SpecValidate == InitValidate /\ [][NextValidate]_vars


\* ------------------------------------------------------------------------
\* Properties of calculate_time_window, checked under SpecWindow
\* ------------------------------------------------------------------------

\* C4: every window that calculate_time_window returns has a length that is
\* positive and at most the granularity, and ends no later than the day
\* after target_day begins.
C4_WindowWithinDay ==
    (tw.called /\ tw.result # None) =>
        /\ 0 < tw.result[2] - tw.result[1]
        /\ tw.result[2] - tw.result[1] <= parse_time_to_seconds(tw.granularity)
        /\ tw.result[2] <= tw.target_day + DAY

\* a call whose desired end lies past the day boundary has returned
C4_Witness ==
    /\ tw.called
    /\ tw.result # None
    /\ tw.result[1] + parse_time_to_seconds(tw.granularity) > tw.target_day + DAY
    /\ tw.result[2] = tw.target_day + DAY

\* C5: calculate_time_window returns None exactly when a continuation
\* timestamp is given and lies strictly before target_day or at or after
\* target_day + 1 day; every other input yields a window.
C5_ExhaustedExactly ==
    tw.called =>
        (tw.result = None <=>
            /\ tw.continuation_timestamp # None
            /\ \/ tw.continuation_timestamp[1] < tw.target_day
               \/ tw.continuation_timestamp[1] >= tw.target_day + DAY)

\* a call with the continuation timestamp exactly at target_day + 1 day has
\* returned None
C5_Witness ==
    /\ tw.called
    /\ tw.continuation_timestamp = Some(tw.target_day + DAY)
    /\ tw.result = None

\* C6: a returned window starts at the continuation timestamp if there is one
\* and at target_day otherwise, ends at the smaller of start + granularity and
\* target_day + 1 day, and carries a time_interval that reads back as its
\* length, which is below the granularity exactly when the end was capped.
C6_WindowShape ==
    (tw.called /\ tw.result # None) =>
        LET start == IF tw.continuation_timestamp = None
                     THEN tw.target_day
                     ELSE tw.continuation_timestamp[1]
            requested == parse_time_to_seconds(tw.granularity)
            capped == start + requested > tw.target_day + DAY
        IN  /\ tw.result[1] = start
            /\ tw.result[2] = IF capped THEN tw.target_day + DAY
                                         ELSE start + requested
            /\ ~parse_time_to_seconds_raises(tw.result[3])
            /\ parse_time_to_seconds(tw.result[3]) = tw.result[2] - tw.result[1]
            /\ (parse_time_to_seconds(tw.result[3]) < requested) <=> capped

\* continuation at 23:00 of the target day with granularity '5h': the window
\* ends at the day boundary and its time_interval is '1h'
C6_Witness ==
    /\ tw.called
    /\ tw.continuation_timestamp = Some(tw.target_day + 23 * HOUR)
    /\ tw.granularity = TimeString(Absent, 5, Absent, Absent)
    /\ tw.result # None
    /\ tw.result[2] = tw.target_day + DAY
    /\ tw.result[3] = TimeString(Absent, 1, Absent, Absent)


\* ------------------------------------------------------------------------
\* Properties of the acquire-or-create step and of the drive table
\* ------------------------------------------------------------------------

\* the invocation of p has returned exit_dag = False
Proceeded(p) == pc[p] = "returned" /\ result[p] = "proceed"

\* C1: of two store_new_and_pass_valid_record invocations with different run
\* ids on the same route, at most one returns exit_dag = False for a given
\* record.
C1_SingleOwner ==
    \A p, q \in Procs :
        (/\ p # q
         /\ kind[p] = "store" /\ kind[q] = "store"
         /\ dag_run_id[p] # dag_run_id[q]
         /\ route[p] = route[q]
         /\ Proceeded(p) /\ Proceeded(q))
        => record[p][1].PIPELINE_ID # record[q][1].PIPELINE_ID

\* C2: for each route and each run id, the drive table holds at most one
\* record that is IN_PROGRESS with that DAG_RUN_ID.
C2_OneInProgressPerRunId ==
    \A x, y \in Rows(store) :
        (/\ x.ROUTE = y.ROUTE
         /\ x.PIPELINE_STATUS = "IN_PROGRESS" /\ y.PIPELINE_STATUS = "IN_PROGRESS"
         /\ x.DAG_RUN_ID = y.DAG_RUN_ID)
        => x.PIPELINE_ID = y.PIPELINE_ID

\* C3: the acquire-or-create step returns exit_dag = False only with a record
\* that is IN_PROGRESS under the invoker's run id.
C3_ProceedOnlyLocked ==
    \A p \in Procs :
        Proceeded(p) =>
            /\ record[p] # None
            /\ record[p][1].PIPELINE_STATUS = "IN_PROGRESS"
            /\ record[p][1].DAG_RUN_ID = dag_run_id[p]

\* C7: no operation on a record an invocation holds changes its PIPELINE_ID.
C7_PipelineIdNeverChanges ==
    [][\A p \in Procs :
          (record[p] # None /\ record'[p] # None)
          => record'[p][1].PIPELINE_ID = record[p][1].PIPELINE_ID]_vars

\* C8: whenever an invocation selects a record, the record is a PENDING row
\* of the invocation's route, and no PENDING row of that route in the table
\* at that moment has an earlier WINDOW_END_TIME.
C8_OldestPendingChosen ==
    [][\A p \in Procs :
          (record[p] = None /\ record'[p] # None)
          => LET chosen == record'[p][1]
             IN  /\ chosen \in DOMAIN store
                 /\ chosen.ROUTE = route[p]
                 /\ chosen.PIPELINE_STATUS = "PENDING"
                 /\ \A y \in DOMAIN store :
                        (y.ROUTE = route[p] /\ y.PIPELINE_STATUS = "PENDING")
                        => chosen.WINDOW_END_TIME[1] <= y.WINDOW_END_TIME[1]]_vars

\* an invocation holds the record it selected while the table holds a PENDING
\* row of its route with a later window end
C8_Witness ==
    \E p \in Procs :
        /\ pc[p] \in {"lock", "d_lock"}
        /\ record[p] # None
        /\ \E y \in DOMAIN store :
              /\ y.ROUTE = route[p]
              /\ y.PIPELINE_STATUS = "PENDING"
              /\ y.WINDOW_END_TIME[1] > record[p][1].WINDOW_END_TIME[1]

\* C9: the window generator produces a new record only in a state where the
\* table holds no PENDING record of the invocation's route.
C9_BuildOnlyWhenNoPending ==
    [][\A p \in Procs :
          (new_record[p] = None /\ new_record'[p] # None)
          => \A y \in DOMAIN store :
                ~(y.ROUTE = route[p] /\ y.PIPELINE_STATUS = "PENDING")]_vars

\* ------------------------------------------------------------------------
\* Property of the timing validators, checked under SpecValidate
\* ------------------------------------------------------------------------

\* the cutoff of the claim: now - lookback, or now - 2 * lookback when the
\* lookback does not exceed the granularity
Cutoff(t, lookback) ==
    IF parse_time_to_seconds(lookback) > parse_time_to_seconds(granularity)
    THEN t - parse_time_to_seconds(lookback)
    ELSE t - 2 * parse_time_to_seconds(lookback)

\* C10: each timing validator accepts a record (exit_dag = False) exactly
\* when its WINDOW_END_TIME is at or before the cutoff.
C10_AcceptIffBeforeCutoff ==
    vc.called =>
        LET window_end == vc.record[1].WINDOW_END_TIME[1]
            in_time == window_end <= Cutoff(vc.now, vc.x_time_back)
        IN  /\ ~vc.core[1].exit_dag <=> in_time
            /\ ~vc.legacy[1].exit_dag <=> in_time

\* C11: when the timing validator rejects a record (exit_dag = True), the
\* record it returns is, field for field, the record it was given.
C11_RejectLeavesRecord ==
    vc.called =>
        /\ vc.core[1].exit_dag => vc.core[1].record = vc.record[1]
        /\ vc.legacy[1].exit_dag => vc.legacy[1].record = vc.record[1]

\* ------------------------------------------------------------------------
\* Properties of the phase tasks, checked under SpecRun
\* ------------------------------------------------------------------------

\* the result of an audit_task call that compared the two counts
AuditCompared(res) ==
    /\ res.task = "audit"
    /\ \/ res.reason[1] = "Audit passed - counts match"
       \/ res.reason[1] = "Data corruption - count mismatch"

\* the counts it compared: those of the returned record on success, those of
\* the failure reason otherwise
AuditCounts(res) ==
    IF res.success
    THEN <<res.record[1].SOURCE_COUNT[1], res.record[1].TARGET_COUNT[1]>>
    ELSE <<res.reason[2], res.reason[3]>>

\* the positions of a call in the calls of a task
CallsOf(res, name) == {i \in DOMAIN res.calls : res.calls[i] = name}

\* C12: an audit_task call that finds source_count = target_count returns
\* success with AUDIT_RESULT = PASS and calls neither purge; one that finds
\* them different calls the stage purge and the target purge exactly once
\* each, both before reset_on_audit_mismatch and the upload of the reset
\* record, and returns a failure.
C12_AuditDecision ==
    \A p \in Procs :
        LET res == task_result[p]
        IN  AuditCompared(res) =>
            LET counts == AuditCounts(res)
                stage == CallsOf(res, "clean_stage_location")
                target == CallsOf(res, "clean_target_location")
                reset == CallsOf(res, "reset_on_audit_mismatch")
                upload == CallsOf(res, "upload_record_to_database")
            IN  /\ counts[1] = counts[2] =>
                    /\ res.success
                    /\ res.record[1].AUDIT_RESULT = "PASS"
                    /\ stage = {} /\ target = {}
                /\ counts[1] # counts[2] =>
                    /\ ~res.success
                    /\ Cardinality(stage) = 1 /\ Cardinality(target) = 1
                    /\ Cardinality(reset) = 1 /\ Cardinality(upload) = 1
                    /\ \A i \in stage \cup target : \A j \in reset : i < j
                    /\ \A j \in reset : \A k \in upload : j < k
                    /\ res.record[1].PHASE_COMPLETED = "NULL"

\* an audit that found a mismatch has returned
C12_Witness ==
    \E p \in Procs :
        /\ AuditCompared(task_result[p])
        /\ ~task_result[p].success
        /\ AuditCounts(task_result[p])[1] # AuditCounts(task_result[p])[2]

\* C13: after audit_task has returned its pass, the row it wrote is in the
\* terminal state: AUDIT_STATUS = COMPLETED, AUDIT_RESULT = PASS,
\* PHASE_COMPLETED = AUDIT and PIPELINE_STATUS = COMPLETED.
C13_TerminalAfterPass ==
    \A p \in Procs :
        (/\ task_result[p].task = "audit"
         /\ task_result[p].reason[1] = "Audit passed - counts match")
        => \A x \in Rows(store) :
              x.PIPELINE_ID = task_result[p].record[1].PIPELINE_ID /\ x.AUDIT_RESULT = "PASS"
              => /\ x.AUDIT_STATUS = "COMPLETED"
                 /\ x.PHASE_COMPLETED = "AUDIT"
                 /\ x.PIPELINE_STATUS = "COMPLETED"

\* C14: an audit_task call in which the retrieval of the source count or of
\* the target count failed returns a failure, has applied
\* reset_on_process_failure and uploaded the record, and has called neither
\* purge.
C14_CountFailureResets ==
    \A p \in Procs :
        LET res == task_result[p]
        IN  (/\ res.task = "audit"
             /\ res.faults \cap {"get_source_count", "get_target_count"} # {})
            => /\ ~res.success
               /\ CallsOf(res, "reset_on_process_failure") # {}
               /\ CallsOf(res, "upload_record_to_database") # {}
               /\ CallsOf(res, "clean_stage_location") = {}
               /\ CallsOf(res, "clean_target_location") = {}

\* the task that has just failed was given record[p]: its wrapper raised, so
\* the XCom value of the upstream task is what the invocation still holds
FailedTask(p) == task_result[p].task # "none" /\ ~task_result[p].success

\* C15: the record returned by a task that applied reset_on_audit_mismatch
\* has PHASE_COMPLETED null; the record returned by a task that applied a
\* process-failure reset (reset_on_failure of either transfer,
\* reset_on_process_failure of the audit) has the PHASE_COMPLETED of the
\* record the task was given.
C15_ResetScopes ==
    \A p \in Procs :
        FailedTask(p) =>
            LET res == task_result[p]
            IN  /\ CallsOf(res, "reset_on_audit_mismatch") # {}
                    => res.record[1].PHASE_COMPLETED = "NULL"
                /\ (CallsOf(res, "reset_on_failure") # {}
                    \/ CallsOf(res, "reset_on_process_failure") # {})
                    => res.record[1].PHASE_COMPLETED = record[p][1].PHASE_COMPLETED

\* the audit's process-failure reset was applied to a record whose transfers
\* are complete
C15_Witness ==
    \E p \in Procs :
        /\ FailedTask(p)
        /\ CallsOf(task_result[p], "reset_on_process_failure") # {}
        /\ record[p][1].PHASE_COMPLETED = "STAGE_TO_TARGET"
        /\ task_result[p].record[1].RETRY_ATTEMPT = record[p][1].RETRY_ATTEMPT + 1

\* C16: in every step, each row of the drive table that was there before the
\* step (same PIPELINE_ID) has a RETRY_ATTEMPT at least as large after it.
C16_RetryNeverDecreases ==
    [][\A x \in Rows(store) : \A y \in Rows(store') :
          x.PIPELINE_ID = y.PIPELINE_ID => y.RETRY_ATTEMPT >= x.RETRY_ATTEMPT]_vars

\* ------------------------------------------------------------------------
\* Properties of the records, checked under Spec and SpecRun
\* ------------------------------------------------------------------------

\* every record there is: the rows of the table, the records the invocations
\* hold and the records their tasks returned
AllRecords ==
    Rows(store)
    \cup {record[p][1] : p \in {q \in Procs : record[q] # None}}
    \cup {task_result[p].record[1] : p \in {q \in Procs : task_result[q].record # None}}

\* C17: in every record, a phase status is COMPLETED only if the end time of
\* that phase is set.
C17_CompletedHasEndTime ==
    \A x \in AllRecords :
        /\ x.SOURCE_TO_STAGE_INGESTION_STATUS = "COMPLETED"
              => x.SOURCE_TO_STAGE_INGESTION_END_TIME # None
        /\ x.STAGE_TO_TARGET_INGESTION_STATUS = "COMPLETED"
              => x.STAGE_TO_TARGET_INGESTION_END_TIME # None
        /\ x.AUDIT_STATUS = "COMPLETED" => x.AUDIT_END_TIME # None

\* a full reset has returned while the table holds a row with a completed
\* phase
C17_Witness ==
    /\ \E p \in Procs : /\ FailedTask(p)
                        /\ CallsOf(task_result[p], "reset_on_audit_mismatch") # {}
    /\ \E x \in AllRecords : x.SOURCE_TO_STAGE_INGESTION_STATUS = "COMPLETED"

\* the place of a PHASE_COMPLETED value in null, SOURCE_TO_STAGE,
\* STAGE_TO_TARGET, AUDIT
PhaseRank(phase) ==
    CASE phase = "NULL" -> 0
      [] phase = "SOURCE_TO_STAGE" -> 1
      [] phase = "STAGE_TO_TARGET" -> 2
      [] phase = "AUDIT" -> 3

\* a step from one PHASE_COMPLETED value to another that stays, advances or
\* clears
PhaseStep(before, after) ==
    \/ PhaseRank(after) >= PhaseRank(before)
    \/ after = "NULL"

\* a task of some invocation applies the full reset in this step
FullResetStep ==
    \E p \in Procs :
        /\ pc[p] = "audit"
        /\ pc'[p] # pc[p] \/ try_number'[p] # try_number[p]
        /\ CallsOf(task_result'[p], "reset_on_audit_mismatch") # {}

\* C18: in every step, the PHASE_COMPLETED of each row of the table (same
\* PIPELINE_ID before and after) and of the record each invocation holds
\* stays the same, advances along null, SOURCE_TO_STAGE, STAGE_TO_TARGET,
\* AUDIT, or becomes null in a step that applies the full reset.
C18_PhaseOnlyForward ==
    [][/\ \A x \in Rows(store) : \A y \in Rows(store') :
             x.PIPELINE_ID = y.PIPELINE_ID
             => /\ PhaseStep(x.PHASE_COMPLETED, y.PHASE_COMPLETED)
                /\ PhaseRank(y.PHASE_COMPLETED) < PhaseRank(x.PHASE_COMPLETED)
                      => FullResetStep
       /\ \A p \in Procs :
             (record[p] # None /\ record'[p] # None)
             => PhaseRank(record'[p][1].PHASE_COMPLETED)
                   >= PhaseRank(record[p][1].PHASE_COMPLETED)]_vars

\* the full reset has cleared PHASE_COMPLETED in the row of a record whose
\* transfers were complete
C18_Witness ==
    \E p \in Procs :
        /\ FailedTask(p)
        /\ CallsOf(task_result[p], "reset_on_audit_mismatch") # {}
        /\ record[p][1].PHASE_COMPLETED = "STAGE_TO_TARGET"
        /\ \E x \in Rows(store) :
              /\ x.PIPELINE_ID = record[p][1].PIPELINE_ID
              /\ x.PHASE_COMPLETED = "NULL"
              /\ x.RETRY_ATTEMPT = record[p][1].RETRY_ATTEMPT + 1

\* ------------------------------------------------------------------------
\* Properties of the reclaim pass
\* ------------------------------------------------------------------------

\* the step is the reclaim pass of invocation p
CleanupStep(p) == pc[p] = "cleanup" /\ pc'[p] = "returned"

\* the age of the lock of an IN_PROGRESS row at time t; the lock time is the
\* PIPELINE_START_TIME acquire_pipeline_lock wrote
LockAge(x, t) == t - x.PIPELINE_START_TIME[1]

Locked(x) == x.PIPELINE_STATUS = "IN_PROGRESS" /\ x.PIPELINE_START_TIME # None

Reclaimed(x) ==
    [x EXCEPT !.PIPELINE_STATUS = "PENDING",
              !.DAG_RUN_ID = "NULL",
              !.PIPELINE_START_TIME = None,
              !.PIPELINE_END_TIME = None,
              !.RETRY_ATTEMPT = @ + 1]

\* C20: after a reclaim pass, every row of the route that was locked with a
\* lock age greater than stale_threshold is persisted with status PENDING,
\* no dag_run_id, no pipeline start and end time and RETRY_ATTEMPT one
\* greater, its other fields unchanged.
C20_ReclaimPersisted ==
    [][\A p \in Procs :
          CleanupStep(p)
          => \A x \in get_all_in_progress_records(store, route[p]) :
                (Locked(x) /\ LockAge(x, now) > stale_threshold)
                => /\ x \notin Rows(store')
                   /\ \E y \in Rows(store') :
                         /\ y.PIPELINE_ID = x.PIPELINE_ID
                         /\ [y EXCEPT !.RECORD_LAST_UPDATED_TIME = None]
                               = [Reclaimed(x) EXCEPT
                                     !.RECORD_LAST_UPDATED_TIME = None]]_vars

\* ------------------------------------------------------------------------
\* Properties of the order of the phases
\* ------------------------------------------------------------------------

\* the rows of the table that carry the PIPELINE_ID of the record invocation
\* p holds
StoredOf(p) == {x \in Rows(store) : x.PIPELINE_ID = record[p][1].PIPELINE_ID}

\* C21: the stage-to-target task is about to run only when the table holds
\* SOURCE_TO_STAGE_INGESTION_STATUS = COMPLETED for the run's record, and the
\* audit task only when it holds STAGE_TO_TARGET_INGESTION_STATUS =
\* COMPLETED: no phase follows a phase whose completion was not written.
C21_PhasesInOrder ==
    \A p \in Procs :
        /\ pc[p] = "stage_to_target"
              => \E x \in StoredOf(p) :
                    x.SOURCE_TO_STAGE_INGESTION_STATUS = "COMPLETED"
        /\ pc[p] = "audit"
              => \E x \in StoredOf(p) :
                    x.STAGE_TO_TARGET_INGESTION_STATUS = "COMPLETED"

\* the task of invocation p applied its process-failure reset
ProcessFailure(p) ==
    /\ FailedTask(p)
    /\ \/ CallsOf(task_result[p], "reset_on_failure") # {}
       \/ CallsOf(task_result[p], "reset_on_process_failure") # {}

\* C22: when a phase task has ended after a failure inside the phase, with
\* its process-failure reset applied, the table holds for the record's
\* PIPELINE_ID exactly the reset record the failure result returns.
C22_FailurePersisted ==
    \A p \in Procs :
        ProcessFailure(p)
        => {x \in Rows(store) :
               x.PIPELINE_ID = task_result[p].record[1].PIPELINE_ID}
              = {task_result[p].record[1]}

\* ------------------------------------------------------------------------
\* Properties of calculate_differences
\* ------------------------------------------------------------------------

\* calculate_differences has returned
DifferencesReturned == fc.fn = "calculate_differences" /\ fc.result # None

\* the documented values: calc(0, 0) = 0.0, calc(0, 5) = 100.0 and
\* calc(100, 80) = 20.0, in hundredths of a percent
DifferencesExamples ==
    /\ fc.args = <<0, 0>> => fc.result[1].percentage_difference = 0
    /\ fc.args = <<0, 5>> => fc.result[1].percentage_difference = 10000
    /\ fc.args = <<100, 80>> => fc.result[1].percentage_difference = 2000

\* C23: calculate_differences(s, t) returns count_difference = |s - t| and
\* percentage_difference = 0 when s = 0 and t = 0, 100 when s = 0 and
\* t # 0, and exactly 100 * |s - t| / s otherwise.
C23_DifferencesExact ==
    DifferencesReturned
    => LET s == fc.args[1]
           t == fc.args[2]
           r == fc.result[1]
       IN  /\ r.count_difference = Abs(s - t)
           /\ (s = 0 /\ t = 0) => r.percentage_difference = 0
           /\ (s = 0 /\ t # 0) => r.percentage_difference = 10000
           /\ s # 0 => r.percentage_difference * s = 10000 * Abs(s - t)
           /\ DifferencesExamples

\* C23 as amended: as above, with percentage_difference for s # 0 the
\* multiple of 0.01 nearest to 100 * |s - t| / s (within 0.005 of it).
C23_DifferencesRounded ==
    DifferencesReturned
    => LET s == fc.args[1]
           t == fc.args[2]
           r == fc.result[1]
       IN  /\ r.count_difference = Abs(s - t)
           /\ (s = 0 /\ t = 0) => r.percentage_difference = 0
           /\ (s = 0 /\ t # 0) => r.percentage_difference = 10000
           /\ s # 0 => 2 * Abs(r.percentage_difference * s - 10000 * Abs(s - t)) <= s
           /\ DifferencesExamples

\* a call whose exact percentage is not a multiple of 0.01 and rounds up:
\* calc(3, 1) = 66.67
C23_Witness ==
    /\ DifferencesReturned
    /\ fc.args = <<3, 1>>
    /\ fc.result[1].percentage_difference = 6667

\* ------------------------------------------------------------------------
\* Properties of the drive table
\* ------------------------------------------------------------------------

\* the number of rows of the table that carry PIPELINE_ID id
RowsWithId(rows, id) ==
    BagCardinality([x \in {z \in Rows(rows) : z.PIPELINE_ID = id} |-> rows[x]])

\* C24: no step removes a record from the drive table: in every step, for
\* every PIPELINE_ID, the table holds afterwards at least as many rows with
\* it as before.
C24_NeverDeleted ==
    [][\A x \in Rows(store) :
          RowsWithId(store', x.PIPELINE_ID) >= RowsWithId(store, x.PIPELINE_ID)]_vars

\* the table holds two records, one of them written back by a reset
C24_Witness ==
    /\ BagCardinality(store) = 2
    /\ \E x \in Rows(store) :
          /\ x.PIPELINE_STATUS = "PENDING"
          /\ x.RETRY_ATTEMPT >= 1

\* ------------------------------------------------------------------------
\* Properties of create_hash
\* ------------------------------------------------------------------------

\* create_hash has returned for a tuple and for the tuple with one value
\* replaced
HashReturned == fc.fn = "create_hash" /\ fc.result # None

\* the position at which the two tuples of the call differ, if any
ChangedAt == {i \in DOMAIN fc.args[1] : fc.args[1][i] # fc.args[2][i]}

CompleteReturned == fc.fn = "ensure_complete_record" /\ fc.result # None

\* some field that check_fields names is None or the empty string in the
\* record given (a key the record lacks reads as None)
SomeCheckedFieldEmpty ==
    /\ fc.args[1] # None
    /\ \E f \in fc.args[1][1] :
          \/ f \notin DOMAIN fc.args[2]
          \/ f = "DAG_RUN_ID" /\ fc.args[2][f] \in {"NULL", ""}
          \/ f \in {"RECORD_FIRST_CREATED_TIME", "PIPELINE_START_TIME"}
                /\ fc.args[2][f] = None

NewRecordWritten(p) ==
    /\ new_record[p] # None
    /\ \/ pc[p] = "upload_new" /\ pc'[p] = "download"
       \/ pc[p] = "d_upload_new" /\ pc'[p] = "d_refetch"

\* C27: when the acquire-or-create step has built a new record and its
\* write reports success, the table afterwards holds a PENDING record of the
\* route with the window of the new record.
C27_NewRecordStored ==
    [][\A p \in Procs :
          NewRecordWritten(p)
          => \E x \in PendingOfRoute(store', route[p]) :
                /\ x.WINDOW_START_TIME = new_record[p][1].WINDOW_START_TIME
                /\ x.WINDOW_END_TIME = new_record[p][1].WINDOW_END_TIME]_vars

\* ------------------------------------------------------------------------
\* Properties of a reclaim pass beside a run
\* ------------------------------------------------------------------------

\* what a phase task persists of its progress
Progress(x) ==
    <<x.SOURCE_TO_STAGE_INGESTION_STATUS, x.SOURCE_TO_STAGE_INGESTION_START_TIME,
      x.SOURCE_TO_STAGE_INGESTION_END_TIME, x.STAGE_TO_TARGET_INGESTION_STATUS,
      x.STAGE_TO_TARGET_INGESTION_START_TIME, x.STAGE_TO_TARGET_INGESTION_END_TIME,
      x.AUDIT_STATUS, x.AUDIT_START_TIME, x.AUDIT_END_TIME, x.PHASE_COMPLETED>>

SomeRecordLocked == \E x \in Rows(store) : x.PIPELINE_STATUS = "IN_PROGRESS"

\* C29: under repeated invocation of cleanup_stale_locks no record stays
\* IN_PROGRESS forever: whenever a record is IN_PROGRESS, a later state has
\* no record IN_PROGRESS (its run has completed or reset it, or a reclaim
\* pass has reset it to PENDING once the lock was older than
\* stale_threshold).
C29_NoLockForever == SomeRecordLocked ~> ~SomeRecordLocked
\* ------------------------------------------------------------------------
\* Properties of a record whose audit has passed
\* ------------------------------------------------------------------------

\* the rows whose passed audit is persisted
Passed(rows) == {x \in Rows(rows) : x.AUDIT_RESULT = "PASS"}

\* invocation p takes a record from the table in this step
Selects(p) ==
    /\ pc[p] \in {"download", "fetch", "d_refetch"}
    /\ record'[p] # None
    /\ record'[p] # record[p]

\* the transfers and purges of the phase tasks
TransferCalls ==
    {"clean_stage_location", "transfer_source_to_stage", "clean_target_location",
     "transfer_stage_to_target"}

\* a phase task of invocation p runs in this step
TaskRuns(p) ==
    /\ pc[p] \in {"source_to_stage", "stage_to_target", "audit"}
    /\ pc'[p] # pc[p] \/ try_number'[p] # try_number[p]

RowsOfRoute(rows, r) == {x \in Rows(rows) : x.ROUTE = r}

\* the windows of two records do not overlap
Disjoint(x, y) ==
    \/ x.WINDOW_END_TIME[1] <= y.WINDOW_START_TIME[1]
    \/ y.WINDOW_END_TIME[1] <= x.WINDOW_START_TIME[1]

\* invocation p builds a new record in this step, or inserts the one it built
Creates(p) ==
    \/ new_record[p] = None /\ new_record'[p] # None
    \/ pc[p] = "d_upload_new" /\ store' # store

\* the record created
Created(p) == IF new_record[p] = None THEN new_record'[p][1] ELSE new_record[p][1]

\* C32: with invocations that run one after the other, each newly created
\* record starts at the greatest WINDOW_END_TIME the table holds for the
\* route, or at target_day when the table holds no record of the route; and
\* the records of a route have windows that are pairwise disjoint and leave
\* no gap (each starts at its target day or where another one ends).
C32_WindowsChain ==
    [][/\ \A p \in Procs :
             Creates(p)
             => LET latest == latest_timestamp_available(store, route[p])
                IN  /\ latest = None
                        => Created(p).WINDOW_START_TIME = Created(p).TARGET_DAY
                    /\ latest # None => Created(p).WINDOW_START_TIME = latest
                    /\ new_record[p] = None
                        => Created(p).TARGET_DAY
                              = Some(calculate_day_from_timestamp(now, x_time_back))
       /\ \A r \in Routes : \A x \in RowsOfRoute(store', r) :
             /\ \A y \in RowsOfRoute(store', r) :
                   x.PIPELINE_ID # y.PIPELINE_ID => Disjoint(x, y)
             /\ \/ x.WINDOW_START_TIME = x.TARGET_DAY
                \/ \E y \in RowsOfRoute(store', r) :
                      y.WINDOW_END_TIME = x.WINDOW_START_TIME]_vars

\* the table holds two records of a route, the second starting where the
\* first ends
C32_Witness ==
    \E r \in Routes : \E x, y \in RowsOfRoute(store, r) :
        /\ x.PIPELINE_ID # y.PIPELINE_ID
        /\ x.WINDOW_START_TIME = x.TARGET_DAY
        /\ y.WINDOW_START_TIME = x.WINDOW_END_TIME
        /\ y.WINDOW_START_TIME # y.TARGET_DAY

\* C33: the table never holds two records of one route (rows of different
\* PIPELINE_ID) with the same WINDOW_START_TIME and WINDOW_END_TIME, however
\* the steps of two invocations interleave.
C33_NoDuplicateWindow ==
    \A r \in Routes : \A x, y \in RowsOfRoute(store, r) :
        (/\ x.WINDOW_START_TIME = y.WINDOW_START_TIME
         /\ x.WINDOW_END_TIME = y.WINDOW_END_TIME)
        => x.PIPELINE_ID = y.PIPELINE_ID

\* ------------------------------------------------------------------------
\* Properties of the fields the resets and the tasks write
\* ------------------------------------------------------------------------

\* the start time, end time and status of a phase
PhaseFields(task) ==
    CASE task = "source_to_stage" ->
            {"SOURCE_TO_STAGE_INGESTION_START_TIME", "SOURCE_TO_STAGE_INGESTION_END_TIME",
             "SOURCE_TO_STAGE_INGESTION_STATUS"}
      [] task = "stage_to_target" ->
            {"STAGE_TO_TARGET_INGESTION_START_TIME", "STAGE_TO_TARGET_INGESTION_END_TIME",
             "STAGE_TO_TARGET_INGESTION_STATUS"}
      [] task = "audit" -> {"AUDIT_START_TIME", "AUDIT_END_TIME", "AUDIT_STATUS"}

\* the audit result and the count and difference fields
AuditFields ==
    {"AUDIT_RESULT", "SOURCE_COUNT", "TARGET_COUNT", "COUNT_DIFFERENCE",
     "PERCENTAGE_DIFFERENCE"}

\* what a process-failure reset of a phase may change
ProcessFailureScope(task) ==
    PhaseFields(task)
    \cup {"PIPELINE_START_TIME", "PIPELINE_END_TIME", "PIPELINE_STATUS",
          "RETRY_ATTEMPT", "RECORD_LAST_UPDATED_TIME"}
    \cup (IF task = "audit" THEN AuditFields ELSE {})

\* C34: the record a task returns after its process-failure reset differs
\* from the record the task was given at most in the start time, end time
\* and status of the task's own phase, the pipeline start time, end time and
\* status, RETRY_ATTEMPT and RECORD_LAST_UPDATED_TIME, and, for the audit,
\* the audit result and the count and difference fields.
C34_ProcessFailureFrame ==
    \A p \in Procs :
        ProcessFailure(p)
        => LET given == record[p][1]
               reset == task_result[p].record[1]
           IN  \A f \in DOMAIN given \ ProcessFailureScope(task_result[p].task) :
                  reset[f] = given[f]

\* the stage-to-target task has reset a record whose source-to-stage phase
\* is complete, and the reset record is written
C34_Witness ==
    \E p \in Procs :
        /\ ProcessFailure(p)
        /\ task_result[p].task = "stage_to_target"
        /\ task_result[p].record[1].SOURCE_TO_STAGE_INGESTION_STATUS = "COMPLETED"
        /\ task_result[p].record[1].SOURCE_TO_STAGE_INGESTION_END_TIME # None
        /\ task_result[p].record[1].STAGE_TO_TARGET_INGESTION_STATUS = "PENDING"
        /\ task_result[p].record[1] \in Rows(store)

\* the audit of invocation p found a mismatch and applied the full reset
AuditMismatch(p) ==
    /\ FailedTask(p)
    /\ CallsOf(task_result[p], "reset_on_audit_mismatch") # {}

\* the rows of the table for the window of record rec
RowsOfWindow(rec) ==
    {x \in Rows(store) : /\ x.ROUTE = rec.ROUTE
                         /\ x.WINDOW_START_TIME = rec.WINDOW_START_TIME
                         /\ x.WINDOW_END_TIME = rec.WINDOW_END_TIME}

\* every field the full reset clears is clear in x
FullyReset(x) ==
    /\ x.SOURCE_TO_STAGE_INGESTION_STATUS = "PENDING"
    /\ x.STAGE_TO_TARGET_INGESTION_STATUS = "PENDING"
    /\ x.AUDIT_STATUS = "PENDING"
    /\ x.SOURCE_TO_STAGE_INGESTION_START_TIME = None
    /\ x.SOURCE_TO_STAGE_INGESTION_END_TIME = None
    /\ x.STAGE_TO_TARGET_INGESTION_START_TIME = None
    /\ x.STAGE_TO_TARGET_INGESTION_END_TIME = None
    /\ x.AUDIT_START_TIME = None
    /\ x.AUDIT_END_TIME = None
    /\ x.AUDIT_RESULT = "NULL"
    /\ x.SOURCE_COUNT = None
    /\ x.TARGET_COUNT = None
    /\ x.COUNT_DIFFERENCE = None
    /\ x.PERCENTAGE_DIFFERENCE = None
    /\ x.PIPELINE_START_TIME = None
    /\ x.PIPELINE_END_TIME = None
    /\ x.PIPELINE_STATUS = "PENDING"
    /\ x.RECORD_FIRST_CREATED_TIME = None
    /\ x.RECORD_LAST_UPDATED_TIME = None

\* C35: after audit_task has found a count mismatch, the table holds the
\* record of the run with every phase status PENDING, every phase time, the
\* audit result, the counts and differences, the pipeline times and both
\* record times null and PIPELINE_STATUS PENDING, and with the TARGET_DAY,
\* WINDOW_START_TIME and WINDOW_END_TIME the task was given.
C35_MismatchPersisted ==
    \A p \in Procs :
        AuditMismatch(p)
        => /\ RowsOfWindow(record[p][1]) # {}
           /\ \A x \in RowsOfWindow(record[p][1]) :
                 /\ FullyReset(x)
                 /\ x.TARGET_DAY = record[p][1].TARGET_DAY

\* the status of the phase of the task invocation p is about to run
OwnPhaseStatus(p) ==
    CASE pc[p] = "source_to_stage" -> record[p][1].SOURCE_TO_STAGE_INGESTION_STATUS
      [] pc[p] = "stage_to_target" -> record[p][1].STAGE_TO_TARGET_INGESTION_STATUS
      [] pc[p] = "audit" -> record[p][1].AUDIT_STATUS

\* C36: a phase task run on a record whose own phase status is COMPLETED
\* returns success and the record as given, having made no call (no purge,
\* no transfer, no count read, no upload), and the table is as before.
C36_CompletedPhaseSkipped ==
    [][\A p \in Procs :
          (TaskRuns(p) /\ OwnPhaseStatus(p) = "COMPLETED")
          => /\ task_result'[p].success
             /\ task_result'[p].calls = <<>>
             /\ task_result'[p].record = record[p]
             /\ record'[p] = record[p]
             /\ store' = store]_vars

\* a later run was given a record whose source-to-stage phase an earlier run
\* completed, and its source-to-stage task has returned
C36_Witness ==
    \E p \in Procs :
        /\ pc[p] = "stage_to_target"
        /\ task_result[p].task = "source_to_stage"
        /\ task_result[p].reason = <<"Already completed">>
        /\ record[p][1].RETRY_ATTEMPT >= 1
        /\ record[p][1].STAGE_TO_TARGET_INGESTION_STATUS = "PENDING"

\* ------------------------------------------------------------------------
\* Properties of get_target_count, checked under SpecPoll
\* ------------------------------------------------------------------------

\* the locals of the get_target_count call, once it has made its first read
PollLocals == fc.result[1]

PollCalled == fc.fn = "get_target_count" /\ fc.result # None

PollReturned == PollCalled /\ PollLocals.at = "returned"

\* the difference source_count - target_count at the i-th read
DifferenceAt(i) == fc.args[1] - PollLocals.reads[i]

\* the i-th read (i > 1, a poll) found the difference strictly smaller than
\* the read before it
Shrinks(i) == DifferenceAt(i) < DifferenceAt(i - 1)

\* ceil(max_wait_time / check_interval)
MaxPolls == (fc.args[2] + fc.args[3] - 1) \div fc.args[3]

\* C37: a get_target_count call that polls goes on exactly as long as each
\* poll finds the difference strictly smaller than the read before and the
\* maximum wait has not elapsed: every poll but the last shrank the
\* difference; the call has returned if the last poll did not; a call
\* that returned after a shrinking poll returned because max_wait_time had
\* elapsed, and a call about to sleep is within it; and the value returned
\* is the count of the last read.
C37_StopsWhenStalled ==
    (PollCalled /\ ~TargetSufficient(fc.args[1], PollLocals.reads[1]))
    => LET n == Len(PollLocals.reads)
       IN  /\ \A i \in 2 .. n - 1 : Shrinks(i)
           /\ (n > 1 /\ ~Shrinks(n)) => PollLocals.at = "returned"
           /\ (PollReturned /\ (n = 1 \/ Shrinks(n)))
                 => PollLocals.elapsed >= fc.args[2]
           /\ PollLocals.at = "sleep" => PollLocals.elapsed < fc.args[2]
           /\ PollLocals.current_target_count = PollLocals.reads[n]
           /\ n = PollLocals.sleeps + 1

\* a call has returned a count smaller than the one before: after two
\* polls that shrank the difference, the third found it larger
C37_Witness ==
    /\ PollReturned
    /\ Len(PollLocals.reads) = 4
    /\ Shrinks(2) /\ Shrinks(3)
    /\ PollLocals.reads[4] < PollLocals.reads[3]
    /\ PollLocals.current_target_count = PollLocals.reads[4]
    /\ PollLocals.elapsed < fc.args[2]

\* C38: when the first read satisfies source_count <= target_count, the
\* call returns that count after one read, without a sleep or a poll.
C38_SufficientAtFirstRead ==
    (PollCalled /\ fc.args[1] <= PollLocals.reads[1])
    => /\ PollLocals.at = "returned"
       /\ PollLocals.reads = <<PollLocals.current_target_count>>
       /\ PollLocals.sleeps = 0
       /\ PollLocals.elapsed = 0

\* a call whose first read equals a positive source count has returned
C38_Witness ==
    /\ PollReturned
    /\ fc.args[1] > 0
    /\ PollLocals.reads[1] = fc.args[1]
    /\ fc.args[2] > 0

\* the number of polls is within ceil(max_wait_time / check_interval)
PollsBounded == PollCalled => Len(PollLocals.reads) - 1 <= MaxPolls

\* C39: every get_target_count call returns, whatever the counts it reads,
\* after at most ceil(max_wait_time / check_interval) reads that follow the
\* first.
C39_PollingTerminates == []PollsBounded /\ <>PollReturned

\* a call has returned after the difference shrank at every one of
\* ceil(600 / 120) = 5 polls
C39_Witness ==
    /\ PollReturned
    /\ fc.args[2] = 600 /\ fc.args[3] = 120
    /\ Len(PollLocals.reads) = 6
    /\ \A i \in 2 .. 6 : Shrinks(i)

\* ------------------------------------------------------------------------
\* C40
\* ------------------------------------------------------------------------

\* the invocation p leaves the step `at` of its acquire-or-create call
StepsFrom(p, at) == pc[p] = at /\ pc'[p] # at

\* p finds no pending record after its create attempt: the download of
\* store_new_and_pass_valid_record is empty, the generator of
\* decide_pipeline_record returns None, or its re-fetch is empty
NoPendingAfterCreate(p) ==
    \/ /\ StepsFrom(p, "download")
       /\ download_oldest_pending_record(store, route[p]) = {}
    \/ /\ StepsFrom(p, "d_build")
       /\ build_complete_pipeline_record(route[p], now, p, x_time_back,
              latest_timestamp_available(store, route[p])) = None
    \/ /\ StepsFrom(p, "d_refetch")
       /\ download_oldest_pending_record(store, route[p]) = {}

\* p makes its create attempt
CreateAttempt(p) == StepsFrom(p, "upload_new") \/ StepsFrom(p, "d_upload_new")

\* C40: a call of the acquire-or-create step that finds no pending record
\* after its create attempt (the generator returned None, or the query after
\* the write is empty) returns at that step with exit_dag true and no
\* record, without raising, and leaves the drive table as it is; the create
\* attempt before it removes and alters no row of the table.
C40_NoPendingExits ==
    [][\A p \in Procs :
        /\ NoPendingAfterCreate(p) =>
              /\ result'[p] = "exit"
              /\ record'[p] = None
              /\ pc'[p] = AfterAcquire(p, "exit")
              /\ store' = store
        /\ CreateAttempt(p) => store \sqsubseteq store']_vars

\* a direct call has returned exit_dag true without a record, with rows in
\* the drive table
C40_Witness ==
    \E p \in Procs :
        /\ kind[p] \in {"store", "decide"}
        /\ pc[p] = "returned"
        /\ result[p] = "exit"
        /\ record[p] = None
        /\ store # EmptyBag

=============================================================================
